---- MODULE Spec2Model ----
(***************************************************************************)
(* A model of NekoAI-JS: the length-prefixed streaming parser              *)
(* (src/src/utils/http-utils.ts), the retry wrapper (retry-utils) and the  *)
(* client calls that use it (src/src/client.ts).                           *)
(***************************************************************************)
EXTENDS Integers, Sequences, FiniteSets, TLC

VARIABLES
    frames,                 \* the frames the sender wrote, in order (ground truth of the input)
    stream,                 \* the bytes on the wire: the frames concatenated
    pos,                    \* number of bytes of stream already handed to feedChunk
    buffer,                 \* StreamingMsgpackParser.buffer
    expectedMessageLength,  \* StreamingMsgpackParser.expectedMessageLength (NULL = null)
    gens,                   \* the generators returned by feedChunk that are not finished,
                            \* each with the chunk it has still to append
    events,                 \* the events yielded by the feedChunk generators, in order
    decoded,                \* one entry per parseMsgpackMessage call made by feedChunk
    chunksFed,              \* number of feedChunk calls made, capped at 2
    cutMidPrefix,           \* some chunk boundary fell inside a 4-byte length prefix
    cutMidBody,             \* some chunk boundary fell inside a record body
    fedEmptyChunk,          \* some chunk had length 0
    abandoned,              \* the consumer gave up some generator after an event while
                            \* a further complete record was buffered
    oneShot,                \* result of parseMsgpackEvents(stream), <<>> before the call
    op,                     \* the call under way: "withRetry", "generateImage", "useDirectorTool"
    rcfg,                   \* the RetryConfig the caller supplied
    req,                    \* resPreset, width and height of the request given to generateImage
    payload,                \* width and height of the request after NovelAI.processMetadata
    rpc,                    \* position of the call
    attempt,                \* withRetry's loop variable
    lastError,              \* withRetry's lastError
    lastThrown,             \* the error of the latest rejection of the wrapped operation
    invocations,            \* number of times withRetry invoked the wrapped operation
    inFlight,               \* invocations of the wrapped operation not yet settled
    successes,              \* invocations of the wrapped operation that resolved
    delays,                 \* number of backoff waits started
    fetches,                \* number of fetch() calls made
    fpc,                    \* position of the wrapped operation
    timerArmed,             \* the attempt's abort timer is set and not cleared
    outcome,                \* how the call ended
    metadata,               \* the Metadata object a caller passes to processMetadata
    passes,                 \* the results of processMetadata applied to metadata, then to its own result
    clientResult,           \* the result of NovelAI.processMetadata on metadata, <<>> before the call
    wireKeys,               \* the keys of the object given to prepareMetadataForApi
    wireOut,                \* the keys of the parameters prepareMetadataForApi built, <<>> before the call
    costIn,                 \* the arguments of two calculateCost calls that differ in steps or n_samples
    costOut,                \* the two costs, <<>> before the calls
    call,                   \* the function called on a response or on a prompt, and its argument
    returned                \* what the call returned or threw, <<>> before it ends

parserVars == <<frames, stream, pos, buffer, expectedMessageLength, gens, events,
                decoded, chunksFed, cutMidPrefix, cutMidBody, fedEmptyChunk, abandoned,
                oneShot>>

retryVars == <<op, rcfg, req, payload, rpc, attempt, lastError, lastThrown, invocations, inFlight,
               successes, delays, fetches, fpc, timerArmed, outcome>>

pureVars == <<metadata, passes, clientResult, wireKeys, wireOut, costIn, costOut,
              call, returned>>

vars == <<parserVars, retryVars, pureVars>>

----------------------------------------------------------------------------
(* Bounds of the model *)

MaxRecords == 2     \* frames per input stream
MaxRetriesArg == 2  \* largest maxRetries a caller passes
MaxCharacters == 2  \* character prompts per request
MaxImages == 2      \* director reference images per request

----------------------------------------------------------------------------
(* Sequences of bytes *)

NULL == -1

Take(s, n) == SubSeq(s, 1, n)

Drop(s, n) == SubSeq(s, n + 1, Len(s))

RECURSIVE Flatten(_)
Flatten(ss) == IF ss = <<>> THEN <<>> ELSE Head(ss) \o Flatten(Tail(ss))

\* DataView.getUint32(0, false): big-endian unsigned 32-bit
GetUint32(b) == b[1] * 16777216 + b[2] * 65536 + b[3] * 256 + b[4]

----------------------------------------------------------------------------
(* Decoding one record body.  The codecs are libraries; they are modelled   *)
(* by their contract on a three-form toy encoding:                          *)
(*   <<1, v>>            msgpack map carrying event_type, samp_ix = v       *)
(*   <<3>>               msgpack scalar: decodes, but is no event           *)
(*   <<2, v, 0, .., 0>>  JSON text of an event, then trailing whitespace    *)
(* decode() throws on insufficient data and on extra bytes; JSON.parse     *)
(* accepts trailing whitespace.                                            *)

createMsgpackEvent(v) == [samp_ix |-> v]

MsgpackDecodes(b) == \/ Len(b) = 2 /\ b[1] = 1
                     \/ Len(b) = 1 /\ b[1] = 3

MsgpackIsEvent(b) == Len(b) = 2 /\ b[1] = 1

JsonIsEvent(b) == /\ Len(b) >= 2
                  /\ b[1] = 2
                  /\ \A i \in 3..Len(b) : b[i] = 0

\* parseMsgpackMessage: <<event>> or <<>> for null; never throws
parseMsgpackMessage(b) ==
    IF MsgpackDecodes(b)
    THEN IF MsgpackIsEvent(b) THEN <<createMsgpackEvent(b[2])>> ELSE <<>>
    ELSE IF JsonIsEvent(b) THEN <<createMsgpackEvent(b[2])>> ELSE <<>>

----------------------------------------------------------------------------
(* The input streams *)

Prefix(n) == <<0, 0, 0, n>>

Frame(body) == Prefix(Len(body)) \o body

\* bodies that decode to an event
EventBodies == { <<1, 0>>, <<1, 1>>, <<2, 2, 0>> }

\* well-formed frames: the prefix states the length of the body that follows
GoodFrames == { Frame(b) : b \in EventBodies \cup { <<3>>, <<3, 3>>, <<>> } }

\* corrupted regions: a prefix that overstates or understates the body, a
\* frame cut short, a stray byte
BadFrames == { <<0, 0, 1, 0, 1, 0>>, <<0, 0, 0, 1, 1, 0>>,
               <<0, 0, 0, 3, 2, 1>>, <<3>> }

FrameCatalog == GoodFrames \cup BadFrames

RECURSIVE SeqsUpTo(_, _)
SeqsUpTo(S, n) ==
    IF n = 0 THEN { <<>> }
    ELSE LET shorter == SeqsUpTo(S, n - 1)
         IN shorter \cup { Append(s, x) : s \in { t \in shorter : Len(t) = n - 1 }, x \in S }

WellFormed == \A i \in 1..Len(frames) : frames[i] \in GoodFrames

\* offset of the first byte of frame i in stream, counted from 0
FrameStart(i) == Len(Flatten(SubSeq(frames, 1, i - 1)))

\* position p (0 < p < Len(stream)) lies strictly inside a length prefix / a body
InsidePrefix(p) == \E i \in 1..Len(frames) :
                       /\ frames[i] \in GoodFrames
                       /\ p - FrameStart(i) \in 1..3

InsideBody(p) == \E i \in 1..Len(frames) :
                     /\ frames[i] \in GoodFrames
                     /\ p - FrameStart(i) \in 5..(Len(frames[i]) - 1)

----------------------------------------------------------------------------
(* StreamingMsgpackParser.feedChunk, one iteration of its while loop *)

\* as FeedIter, but the length prefix stays in the buffer
FeedIterKeepsPrefix(buf, exp) ==
    IF exp = NULL /\ Len(buf) < 4
    THEN [kind |-> "break", buffer |-> buf, exp |-> NULL, msg |-> <<>>, declared |-> NULL]
    ELSE LET e2 == IF exp = NULL THEN GetUint32(buf) ELSE exp
             b2 == buf
         IN IF Len(b2) < e2
            THEN [kind |-> "break", buffer |-> b2, exp |-> e2, msg |-> <<>>,
                  declared |-> e2]
            ELSE [kind |-> "record", buffer |-> Drop(b2, e2), exp |-> NULL,
                  msg |-> Take(b2, e2), declared |-> e2]

\* as FeedIter, but the declared length is not kept while the body is awaited
FeedIterForgetsLength(buf, exp) ==
    IF exp = NULL /\ Len(buf) < 4
    THEN [kind |-> "break", buffer |-> buf, exp |-> NULL, msg |-> <<>>, declared |-> NULL]
    ELSE LET e2 == IF exp = NULL THEN GetUint32(buf) ELSE exp
             b2 == IF exp = NULL THEN Drop(buf, 4) ELSE buf
         IN IF Len(b2) < e2
            THEN [kind |-> "break", buffer |-> b2, exp |-> NULL, msg |-> <<>>,
                  declared |-> e2]
            ELSE [kind |-> "record", buffer |-> Drop(b2, e2), exp |-> NULL,
                  msg |-> Take(b2, e2), declared |-> e2]

FeedIter(buf, exp) ==
    IF exp = NULL /\ Len(buf) < 4
    THEN [kind |-> "break", buffer |-> buf, exp |-> NULL, msg |-> <<>>, declared |-> NULL]
    ELSE LET e2 == IF exp = NULL THEN GetUint32(buf) ELSE exp
             b2 == IF exp = NULL THEN Drop(buf, 4) ELSE buf
         IN IF Len(b2) < e2
            THEN [kind |-> "break", buffer |-> b2, exp |-> e2, msg |-> <<>>,
                  declared |-> e2]
            ELSE [kind |-> "record", buffer |-> Drop(b2, e2), exp |-> NULL,
                  msg |-> Take(b2, e2), declared |-> e2]

\* feedChunk(chunk) with the next k bytes of the stream: the call only
\* creates the generator; its body has not run
FeedChunk(k) ==
    /\ gens = <<>>
    /\ pos + k <= Len(stream)
    /\ gens' = <<[chunk |-> SubSeq(stream, pos + 1, pos + k), pc |-> "start"]>>
    /\ pos' = pos + k
    /\ chunksFed' = IF chunksFed < 2 THEN chunksFed + 1 ELSE 2
    /\ cutMidPrefix' = (cutMidPrefix \/ (pos + k < Len(stream) /\ InsidePrefix(pos + k)))
    /\ cutMidBody' = (cutMidBody \/ (pos + k < Len(stream) /\ InsideBody(pos + k)))
    /\ fedEmptyChunk' = (fedEmptyChunk \/ k = 0)
    /\ UNCHANGED <<frames, stream, buffer, expectedMessageLength, events, decoded, oneShot,
                   abandoned>>
    /\ UNCHANGED <<retryVars, pureVars>>

\* the consumer asks for the next event: the body starts (the chunk is
\* appended to the buffer) or resumes after a yield
GenResume(g) ==
    /\ g \in 1..Len(gens)
    /\ gens[g].pc \in {"start", "yielded"}
    /\ \A h \in 1..Len(gens) : gens[h].pc # "running"
    /\ buffer' = IF gens[g].pc = "start" THEN buffer \o gens[g].chunk ELSE buffer
    /\ gens' = [gens EXCEPT ![g].pc = "running", ![g].chunk = <<>>]
    /\ UNCHANGED <<frames, stream, pos, expectedMessageLength, events, decoded,
                   chunksFed, cutMidPrefix, cutMidBody, fedEmptyChunk, oneShot, abandoned>>
    /\ UNCHANGED <<retryVars, pureVars>>

\* as GenIter, but the loop goes on where it should break
GenIterSpins(g) ==
    /\ g \in 1..Len(gens)
    /\ gens[g].pc = "running"
    /\ LET r == FeedIter(buffer, expectedMessageLength)
           ev == parseMsgpackMessage(r.msg)
       IN /\ buffer' = r.buffer
          /\ expectedMessageLength' = r.exp
          /\ IF r.kind = "break"
             THEN UNCHANGED <<gens, events, decoded>>
             ELSE /\ decoded' = Append(decoded, [declared |-> r.declared,
                                                 passed |-> Len(r.msg)])
                  /\ events' = events \o ev
                  /\ gens' = [gens EXCEPT ![g].pc = IF ev = <<>> THEN "running" ELSE "yielded"]
    /\ UNCHANGED <<frames, stream, pos, chunksFed, cutMidPrefix, cutMidBody,
                   fedEmptyChunk, oneShot, abandoned>>
    /\ UNCHANGED <<retryVars, pureVars>>

\* one iteration of while (true): break ends the generator, a decoded event
\* is yielded, a record that gives no event lets the loop go on
GenIter(g) ==
    /\ g \in 1..Len(gens)
    /\ gens[g].pc = "running"
    /\ LET r == FeedIter(buffer, expectedMessageLength)
           ev == parseMsgpackMessage(r.msg)
       IN /\ buffer' = r.buffer
          /\ expectedMessageLength' = r.exp
          /\ IF r.kind = "break"
             THEN /\ gens' = SubSeq(gens, 1, g - 1) \o SubSeq(gens, g + 1, Len(gens))
                  /\ UNCHANGED <<events, decoded>>
             ELSE /\ decoded' = Append(decoded, [declared |-> r.declared,
                                                 passed |-> Len(r.msg)])
                  /\ events' = events \o ev
                  /\ gens' = [gens EXCEPT ![g].pc = IF ev = <<>> THEN "running" ELSE "yielded"]
    /\ UNCHANGED <<frames, stream, pos, chunksFed, cutMidPrefix, cutMidBody,
                   fedEmptyChunk, oneShot, abandoned>>
    /\ UNCHANGED <<retryVars, pureVars>>

----------------------------------------------------------------------------
(* parseMsgpackEvents: the one-shot parser.  Nothing inside its try block  *)
(* throws (parseMsgpackMessage catches every decoding error itself), so    *)
(* the catch branch, offset += 1, is never taken.                          *)

Min(a, b) == IF a < b THEN a ELSE b

\* evs with the events ev placed after the last event of the same or a
\* smaller samp_ix
RECURSIVE InsertBySample(_, _)
InsertBySample(evs, ev) ==
    IF ev = <<>> THEN evs
    ELSE IF evs = <<>> THEN ev
    ELSE IF Head(evs).samp_ix <= ev[1].samp_ix
         THEN <<Head(evs)>> \o InsertBySample(Tail(evs), ev)
         ELSE ev \o evs

\* as ParseFrom, but the events are grouped by samp_ix
RECURSIVE ParseFromGrouped(_, _, _, _)
ParseFromGrouped(data, offset, evs, log) ==
    IF offset >= Len(data) \/ offset + 4 > Len(data)
    THEN [events |-> evs, decoded |-> log]
    ELSE LET messageLength == GetUint32(SubSeq(data, offset + 1, offset + 4))
             msgStart == offset + 4
             msgEnd == Min(msgStart + messageLength, Len(data))
             messageData == SubSeq(data, msgStart + 1, msgEnd)
         IN IF msgStart >= Len(data)
            THEN [events |-> evs, decoded |-> log]
            ELSE ParseFromGrouped(data, msgStart + messageLength,
                                  InsertBySample(evs, parseMsgpackMessage(messageData)),
                                  Append(log, [declared |-> messageLength,
                                               passed |-> Len(messageData)]))

RECURSIVE ParseFrom(_, _, _, _)
ParseFrom(data, offset, evs, log) ==
    IF offset >= Len(data) \/ offset + 4 > Len(data)
    THEN [events |-> evs, decoded |-> log]
    ELSE LET messageLength == GetUint32(SubSeq(data, offset + 1, offset + 4))
             msgStart == offset + 4
             msgEnd == Min(msgStart + messageLength, Len(data))
             messageData == SubSeq(data, msgStart + 1, msgEnd)
         IN IF msgStart >= Len(data)
            THEN [events |-> evs, decoded |-> log]
            ELSE ParseFrom(data, msgStart + messageLength,
                           evs \o parseMsgpackMessage(messageData),
                           Append(log, [declared |-> messageLength,
                                        passed |-> Len(messageData)]))

parseMsgpackEvents(data) == ParseFrom(data, 0, <<>>, <<>>)

ParseOneShot ==
    /\ oneShot = <<>>
    /\ oneShot' = <<parseMsgpackEvents(stream)>>
    /\ UNCHANGED <<frames, stream, pos, buffer, expectedMessageLength, gens, events,
                   decoded, chunksFed, cutMidPrefix, cutMidBody, fedEmptyChunk,
                   abandoned>>
    /\ UNCHANGED <<retryVars, pureVars>>

----------------------------------------------------------------------------
(* Errors.  name is the error's name (a TypeError is the error that is an  *)
(* instanceof TypeError), status its status property (0: none), fetchMsg   *)
(* whether its message contains "fetch"; cause and id tell the errors      *)
(* apart (id: the invocation that threw it) and are not read by the code.  *)

NoError == [name |-> "none", status |-> 0, fetchMsg |-> FALSE, cause |-> "none", id |-> 0]

\* handleResponse: !response.ok
StatusError(st) == [name |-> "Error", status |-> st, fetchMsg |-> FALSE, cause |-> "status", id |-> 0]

\* fetch rejects for a network failure
NetworkError == [name |-> "TypeError", status |-> 0, fetchMsg |-> TRUE, cause |-> "network", id |-> 0]

\* fetch rejects because controller.abort() was called
AbortError == [name |-> "AbortError", status |-> 0, fetchMsg |-> FALSE, cause |-> "timeout", id |-> 0]

\* the catch of generateImage and useDirectorTool: an AbortError is replaced
\* by new Error("Request timed out, ...")
TimedOutError == [name |-> "Error", status |-> 0, fetchMsg |-> FALSE, cause |-> "timeout", id |-> 0]

\* content-type mismatch, archive that does not load
PlainError(c) == [name |-> "Error", status |-> 0, fetchMsg |-> FALSE, cause |-> c, id |-> 0]

\* withRetry: throw lastError || new Error("Failed after retries")
FailedAfterRetries == PlainError("failedAfterRetries")

ErrorStatuses == {400, 429, 500, 501, 502, 503, 504, 507, 508, 509}

\* what an arbitrary wrapped operation may throw
GenericErrors ==
    { StatusError(st) : st \in ErrorStatuses }
        \cup { NetworkError, AbortError, PlainError("other"),
               [name |-> "TypeError", status |-> 0, fetchMsg |-> FALSE, cause |-> "other", id |-> 0] }

----------------------------------------------------------------------------
(* Retry configuration *)

DEFAULT_RETRY_CONFIG == [enabled |-> TRUE, maxRetries |-> 3, retryStatusCodes |-> {429}]

\* the RetryConfig objects a caller passes: every key may be absent; enabled
\* and maxRetries may be present with the value undefined
RetryConfigs ==
    [enabled : {"absent", "undefined", "true", "false"},
     maxKind : {"absent", "undefined", "number"},
     maxVal : (-1)..MaxRetriesArg,
     codesGiven : BOOLEAN,
     codes : { {}, {429, 503} }]

\* one representation per configuration
CanonicalConfig(c) ==
    /\ (c.maxKind # "number" => c.maxVal = 0)
    /\ (~c.codesGiven => c.codes = {})

\* { ...DEFAULT_RETRY_CONFIG, ...(retryConfig || {}) }
ConfigEnabled(c) == IF c.enabled = "absent" THEN DEFAULT_RETRY_CONFIG.enabled
                    ELSE c.enabled = "true"

ConfigMaxRetries(c) ==
    IF c.maxKind = "absent" THEN [kind |-> "number", val |-> DEFAULT_RETRY_CONFIG.maxRetries]
    ELSE [kind |-> c.maxKind, val |-> c.maxVal]

ConfigStatusCodes(c) == IF c.codesGiven THEN c.codes ELSE DEFAULT_RETRY_CONFIG.retryStatusCodes

\* attempt <= config.maxRetries and attempt >= config.maxRetries; a
\* comparison with undefined is false
AttemptLeq(a, m) == m.kind = "number" /\ a <= m.val

AttemptGeq(a, m) == m.kind = "number" /\ a >= m.val

\* as shouldRetryRequest, but every error that carries a status is retried
shouldRetryAnyStatus(error, c, a) ==
    IF AttemptGeq(a, ConfigMaxRetries(c)) THEN FALSE
    ELSE IF error.status # 0 THEN TRUE
    ELSE IF error.name = "TypeError" /\ error.fetchMsg THEN TRUE
    ELSE error.name = "AbortError"

shouldRetryRequest(error, c, a) ==
    IF AttemptGeq(a, ConfigMaxRetries(c)) THEN FALSE
    ELSE IF error.status # 0 /\ error.status \in ConfigStatusCodes(c) THEN TRUE
    ELSE IF error.name = "TypeError" /\ error.fetchMsg THEN TRUE
    ELSE error.name = "AbortError"

\* as GivesUp, but every error is retried until the attempts run out
GivesUpOnlyAtLimit(error, c, a) == AttemptGeq(a, ConfigMaxRetries(c))

\* withRetry line 48: the error is rethrown instead of retried
GivesUp(error, c, a) ==
    ~shouldRetryRequest(error, c, a) \/ AttemptGeq(a, ConfigMaxRetries(c))

\* as Rethrown, but a new Error is made from the message
RethrownWrapped(error) == [error EXCEPT !.name = "Error", !.status = 0]

\* withRetry line 49: throw error
Rethrown(error) == error

----------------------------------------------------------------------------
(* Resolution of a request *)

NoDim == NULL       \* width or height not given

NoPreset == "none"  \* resPreset not given

\* NovelAI.getResolutionDimensions
NovelAI_getResolutionDimensions(preset) ==
    CASE preset = "small_portrait" -> <<512, 768>>
      [] preset = "small_landscape" -> <<768, 512>>
      [] preset = "small_square" -> <<640, 640>>
      [] preset = "normal_portrait" -> <<832, 1216>>
      [] preset = "normal_landscape" -> <<1216, 832>>
      [] preset = "normal_square" -> <<1024, 1024>>
      [] preset = "large_portrait" -> <<1024, 1536>>
      [] preset = "large_landscape" -> <<1536, 1024>>
      [] preset = "large_square" -> <<1472, 1472>>
      [] preset = "wallpaper_portrait" -> <<1088, 1920>>
      [] preset = "wallpaper_landscape" -> <<1920, 1088>>
      [] OTHER -> <<1024, 1024>>

\* MetadataProcessor.getResolutionDimensions
getResolutionDimensions(preset) ==
    CASE preset = "small_portrait" -> <<512, 768>>
      [] preset = "small_landscape" -> <<768, 512>>
      [] preset = "small_square" -> <<640, 640>>
      [] preset = "normal_portrait" -> <<832, 1216>>
      [] preset = "normal_landscape" -> <<1216, 832>>
      [] preset = "normal_square" -> <<1024, 1024>>
      [] preset = "large_portrait" -> <<1024, 1536>>
      [] preset = "large_landscape" -> <<1536, 1024>>
      [] preset = "large_square" -> <<1472, 1472>>
      [] preset = "wallpaper_portrait" -> <<1088, 1920>>
      [] preset = "wallpaper_landscape" -> <<1920, 1088>>
      [] OTHER -> <<832, 1216>>

\* !x for a width or a height: undefined and 0 are falsy
Falsy(x) == x = NoDim \/ x = 0

\* NovelAI.processMetadata, the width and height of its result: the preset
\* fills what is missing; nothing is rounded and nothing is validated
NovelAI_processMetadata(r) ==
    IF r.resPreset # NoPreset /\ (Falsy(r.width) \/ Falsy(r.height))
    THEN [width |-> IF Falsy(r.width) THEN NovelAI_getResolutionDimensions(r.resPreset)[1]
                    ELSE r.width,
          height |-> IF Falsy(r.height) THEN NovelAI_getResolutionDimensions(r.resPreset)[2]
                     ELSE r.height]
    ELSE [width |-> r.width, height |-> r.height]

\* as handleResolution, but only the upper limit is checked
handleResolutionNoMinimum(r) ==
    LET dims == IF r.width = NoDim \/ r.height = NoDim
                THEN IF r.resPreset # NoPreset
                     THEN getResolutionDimensions(r.resPreset)
                     ELSE <<832, 1216>>
                ELSE <<((r.width + 63) \div 64) * 64, ((r.height + 63) \div 64) * 64>>
         totalPixels == dims[1] * dims[2]
         maxPixels == 3047424
    IN [ok |-> ~(totalPixels > maxPixels), width |-> dims[1], height |-> dims[2]]

\* MetadataProcessor.handleResolution: ok is FALSE where it throws
handleResolution(r) ==
    LET dims == IF r.width = NoDim \/ r.height = NoDim
                THEN IF r.resPreset # NoPreset
                     THEN getResolutionDimensions(r.resPreset)
                     ELSE <<832, 1216>>
                ELSE <<((r.width + 63) \div 64) * 64, ((r.height + 63) \div 64) * 64>>
         totalPixels == dims[1] * dims[2]
         minPixels == 64 * 64
         maxPixels == 3047424
    IN [ok |-> ~(totalPixels < minPixels \/ totalPixels > maxPixels),
        width |-> dims[1], height |-> dims[2]]

NoRequest == [resPreset |-> NoPreset, width |-> NoDim, height |-> NoDim]

Requests == [resPreset : {NoPreset, "small_square"},
             width : {NoDim, 10, 1000, 2048},
             height : {NoDim, 10, 1000, 2048}]

----------------------------------------------------------------------------
(* Metadata objects.  A key that is missing, undefined or null is None, a   *)
(* key with value v is Some(v); every test the code makes on such a key    *)
(* (??, == null, ?., truthiness) treats the three alike.  resPreset, width *)
(* and height keep NoPreset and NoDim.  Fractions (strength, center.x) are *)
(* counted in tenths.                                                      *)

None == <<>>

Some(v) == <<v>>

\* x ?? d
OrElse(x, d) == IF x = None THEN Some(d) ELSE x

\* x || d for a number: undefined and 0 give d
OrIfZero(x, d) == IF x = None \/ x = Some(0) THEN Some(d) ELSE x

\* truthiness of a boolean key
IsTrue(x) == x = Some(TRUE)

----------------------------------------------------------------------------
(* Prompt strings.  A string is the sequence of the pieces that             *)
(* split(",") gives, each piece trimmed; "" is a piece of white space only. *)
(* The empty string is the empty sequence.                                 *)

EmptyString == <<>>

\* String.prototype.toLowerCase on the tags the requests use
toLowerCase(t) == CASE t = "NSFW" -> "nsfw"
                    [] t = "Cute" -> "cute"
                    [] OTHER -> t

\* s + t
Concat(s, t) ==
    IF s = <<>> THEN t
    ELSE IF t = <<>> THEN s
    ELSE LET a == s[Len(s)]
             b == Head(t)
             joined == IF b = "" THEN a ELSE IF a = "" THEN b ELSE a \o " " \o b
         IN SubSeq(s, 1, Len(s) - 1) \o <<joined>> \o Tail(t)

\* the loop of deduplicateTags over the pieces of the prompt
RECURSIVE DedupLoop(_, _, _)
DedupLoop(tags, seen, deduped) ==
    IF tags = <<>> THEN deduped
    ELSE LET trimmed == Head(tags)
             lower == toLowerCase(trimmed)
         IN IF trimmed = "" THEN DedupLoop(Tail(tags), seen, deduped)
            ELSE IF lower \in seen THEN DedupLoop(Tail(tags), seen, deduped)
            ELSE DedupLoop(Tail(tags), seen \cup {lower}, Append(deduped, trimmed))

deduplicateTags(prompt) ==
    IF prompt = EmptyString THEN prompt ELSE DedupLoop(prompt, {}, <<>>)

----------------------------------------------------------------------------
(* Models, actions, samplers *)

Models == {"V3", "V3_INP", "V4", "V4_INP", "V4_CUR", "V4_CUR_INP",
           "V4_5_CUR", "V4_5_CUR_INP", "V4_5", "V4_5_INP", "FURRY", "FURRY_INP"}

Actions == {"generate", "infill", "img2img"}

EULER_ANC == "k_euler_ancestral"

Samplers == {"k_euler", EULER_ANC, "k_dpmpp_2m"}

\* the list v4Models of handleModelSpecificSettings, handleV4Prompt and
\* handleV4NegativePrompt
v4Models == {"V4", "V4_INP", "V4_CUR", "V4_CUR_INP",
             "V4_5_CUR", "V4_5_CUR_INP", "V4_5", "V4_5_INP"}

isV4Model(model) == model \in v4Models

\* handleQualityTags: the tags appended for the model.  Each constant is
\* given by its first and its last tags.
qualityTags(model) ==
    CASE model \in {"V4_5", "V4_5_INP"} -> <<"", "very aesthetic", "masterpiece", "no text">>
      [] model \in {"V4_5_CUR", "V4_5_CUR_INP"} -> <<"", "location", "masterpiece", "rating:general">>
      [] model \in {"V4", "V4_INP"} -> <<"", "no text", "best quality", "absurdres">>
      [] model \in {"V4_CUR", "V4_CUR_INP"} -> <<"", "rating:general", "amazing quality", "absurdres">>
      [] model \in {"V3", "V3_INP"} -> <<"", "best quality", "amazing quality", "absurdres">>
      [] model \in {"FURRY", "FURRY_INP"} -> <<"", "{best quality}", "{amazing quality}">>
      [] OTHER -> EmptyString

\* handleUcPreset: the text put before the negative prompt.  Each constant
\* is given by its first two tags and its last tag; the constants of V3 and
\* FURRY end with a comma.
ucText(model, ucPreset) ==
    CASE model \in {"V4_5", "V4_5_INP"} /\ ucPreset = 0 -> <<"", "nsfw", "lowres", "blank page">>
      [] model \in {"V4_5", "V4_5_INP"} /\ ucPreset = 1 -> <<"", "nsfw", "lowres", "blank page">>
      [] model \in {"V4_5", "V4_5_INP"} /\ ucPreset = 2 -> <<"", "nsfw", "{worst quality}", "comic">>
      [] model \in {"V4_5", "V4_5_INP"} /\ ucPreset = 3 -> <<"", "nsfw", "lowres", "bad anatomy">>
      [] model \in {"V4_5_CUR", "V4_5_CUR_INP"} /\ ucPreset \in {0, 1, 2} ->
             <<"", "blurry", "lowres", "blank page">>
      [] model \in {"V4", "V4_INP"} /\ ucPreset = 0 -> <<"", "blurry", "lowres", "too many watermarks">>
      [] model \in {"V4", "V4_INP"} /\ ucPreset = 1 -> <<"", "blurry", "lowres", "very displeasing">>
      [] model \in {"V4_CUR", "V4_CUR_INP"} /\ ucPreset = 0 -> <<"", "blurry", "lowres", "gigantic breasts">>
      [] model \in {"V4_CUR", "V4_CUR_INP"} /\ ucPreset = 1 -> <<"", "blurry", "lowres", "signature">>
      [] model \in {"V3", "V3_INP"} /\ ucPreset = 0 -> <<"", "lowres", "{bad}", "[abstract]", "">>
      [] model \in {"V3", "V3_INP"} /\ ucPreset = 1 -> <<"", "lowres", "jpeg artifacts", "very displeasing", "">>
      [] model \in {"V3", "V3_INP"} /\ ucPreset = 2 -> <<"", "lowres", "{bad}", "glowing eyes", "">>
      [] model \in {"FURRY", "FURRY_INP"} /\ ucPreset = 0 -> <<"", "{{worst quality}}", "[displeasing]", "high contrast", "">>
      [] model \in {"FURRY", "FURRY_INP"} /\ ucPreset = 1 -> <<"", "{worst quality}", "guide lines", "unknown text", "">>
      [] OTHER -> EmptyString

----------------------------------------------------------------------------
(* MetadataProcessor: the steps of processMetadata, each on the object m    *)
(* that the step before left.  Of the keys that applyDefaultValues only    *)
(* fills with a constant (x ?? c), n_samples and steps stand for the rest. *)

\* while (array.length < imageCount) array.push(default)
RECURSIVE PushUpTo(_, _, _)
PushUpTo(array, imageCount, default) ==
    IF Len(array) < imageCount THEN PushUpTo(Append(array, default), imageCount, default)
    ELSE array

\* applyDirectorReferenceDefaults on one per-image array: ?? [], the while
\* loop, then slice(0, imageCount)
PadTrim(arr, imageCount, default) ==
    LET padded == PushUpTo(IF arr = None THEN <<>> ELSE arr[1], imageCount, default)
    IN Some(IF Len(padded) > imageCount THEN SubSeq(padded, 1, imageCount) ELSE padded)

DefaultDescription == [base_caption |-> <<"character">>, char_captions |-> <<>>,
                       legacy_uc |-> FALSE]

applyDirectorReferenceDefaults(m) ==
    IF m.director_reference_images = None \/ m.director_reference_images = Some(<<>>)
    THEN [m EXCEPT !.director_reference_descriptions = None,
                   !.director_reference_images = None,
                   !.director_reference_information_extracted = None,
                   !.director_reference_strength_values = None]
    ELSE LET imageCount == Len(m.director_reference_images[1])
         IN [m EXCEPT !.director_reference_descriptions =
                          PadTrim(@, imageCount, DefaultDescription),
                      !.director_reference_information_extracted = PadTrim(@, imageCount, 1),
                      !.director_reference_strength_values = PadTrim(@, imageCount, 1)]

\* applyDefaultValues; random is the value Math.random() gives for the seed
applyDefaultValues(m, random) ==
    LET d == [m EXCEPT !.model = OrElse(@, "V4_5"),
                       !.action = OrElse(@, "generate"),
                       !.resPreset = IF @ = NoPreset THEN "normal_portrait" ELSE @,
                       !.ucPreset = OrElse(@, 0),
                       !.qualityToggle = OrElse(@, TRUE),
                       !.n_samples = OrElse(@, 1),
                       !.steps = OrElse(@, 28),
                       !.seed = OrElse(@, random),
                       !.sampler = OrElse(@, EULER_ANC),
                       !.params_version = OrElse(@, 3),
                       !.prompt = OrElse(@, <<"1girl", "cute">>),
                       !.negative_prompt = OrElse(@, EmptyString),
                       !.legacy_uc = OrElse(@, FALSE)]
    IN [applyDirectorReferenceDefaults(d) EXCEPT !.stream = None]

\* handleResolution on the whole object; None where it throws
handleResolutionOf(m) ==
    LET r == handleResolution([resPreset |-> m.resPreset, width |-> m.width,
                               height |-> m.height])
    IN IF r.ok THEN Some([m EXCEPT !.width = r.width, !.height = r.height]) ELSE None

handleUcPreset(m) ==
    [m EXCEPT !.negative_prompt =
        Some(Concat(Concat(ucText(m.model[1], m.ucPreset[1]), <<"", "">>), @[1]))]

handleQualityTags(m) ==
    IF ~IsTrue(m.qualityToggle) THEN m
    ELSE [m EXCEPT !.prompt = Some(Concat(@[1], qualityTags(m.model[1])))]

\* lines 665-668: result.prompt ? deduplicateTags(result.prompt) : ""
dedupPrompts(m) ==
    [m EXCEPT !.prompt = Some(deduplicateTags(@[1])),
              !.negative_prompt = Some(deduplicateTags(@[1]))]

\* random is the value Math.random() gives for the extra noise seed
handleActionSpecificParameters(m, random) ==
    IF m.action[1] \in {"img2img", "infill"}
    THEN [m EXCEPT !.sm = Some(FALSE),
                   !.sm_dyn = Some(FALSE),
                   !.strength = OrIfZero(@, 3),
                   !.noise = OrIfZero(@, 0),
                   !.extra_noise_seed = OrIfZero(@, random)]
    ELSE m

\* cp.center?.x !== 0.5 || cp.center?.y !== 0.5
OffCenter(cp) == \/ cp.center = None
                 \/ cp.center[1].x # Some(5)
                 \/ cp.center[1].y # Some(5)

handleUseCoords(m) ==
    IF m.characterPrompts = <<>> THEN [m EXCEPT !.use_coords = Some(FALSE)]
    ELSE [m EXCEPT !.use_coords =
             Some(\E i \in 1..Len(m.characterPrompts) : OffCenter(m.characterPrompts[i]))]

\* the body of the forEach of handleCharacterPrompts
defaultCharacterPrompt(cp) ==
    [enabled |-> OrElse(cp.enabled, TRUE),
     prompt |-> IF cp.prompt = None \/ cp.prompt = Some(EmptyString)
                THEN Some(<<"1girl", "cute">>)
                ELSE Some(deduplicateTags(cp.prompt[1])),
     uc |-> IF cp.uc = None \/ cp.uc = Some(EmptyString)
            THEN Some(<<"lowres", "aliasing", "">>)
            ELSE Some(deduplicateTags(cp.uc[1])),
     center |-> IF cp.center = None THEN Some([x |-> Some(5), y |-> Some(5)])
                ELSE Some([x |-> OrElse(cp.center[1].x, 5), y |-> OrElse(cp.center[1].y, 5)])]

handleCharacterPrompts(m) ==
    [m EXCEPT !.characterPrompts = [i \in 1..Len(@) |-> defaultCharacterPrompt(@[i])]]

handleStream(m) ==
    IF isV4Model(m.model[1]) /\ m.action[1] = "generate"
    THEN [m EXCEPT !.stream = Some("msgpack")]
    ELSE m

\* the characterPrompts.forEach of handleV4Prompt
RECURSIVE promptCaptions(_)
promptCaptions(cps) ==
    IF cps = <<>> THEN <<>>
    ELSE (IF IsTrue(Head(cps).enabled)
          THEN <<[char_caption |-> Head(cps).prompt, centers |-> <<Head(cps).center>>]>>
          ELSE <<>>) \o promptCaptions(Tail(cps))

\* the characterPrompts.forEach of handleV4NegativePrompt
RECURSIVE ucCaptions(_)
ucCaptions(cps) ==
    IF cps = <<>> THEN <<>>
    ELSE (IF IsTrue(Head(cps).enabled) /\ Head(cps).uc \notin {None, Some(EmptyString)}
          THEN <<[char_caption |-> Head(cps).uc, centers |-> <<Head(cps).center>>]>>
          ELSE <<>>) \o ucCaptions(Tail(cps))

handleV4Prompt(m) ==
    IF m.v4_prompt # None THEN m
    ELSE IF m.model = None \/ m.model[1] \notin v4Models THEN m
    ELSE [m EXCEPT !.v4_prompt =
             Some([base_caption |-> IF m.prompt = None THEN EmptyString ELSE m.prompt[1],
                   char_captions |-> promptCaptions(m.characterPrompts),
                   use_coords |-> IsTrue(m.use_coords),
                   use_order |-> TRUE])]

handleV4NegativePrompt(m) ==
    IF m.v4_negative_prompt # None THEN m
    ELSE IF m.model = None \/ m.model[1] \notin v4Models THEN m
    ELSE [m EXCEPT !.v4_negative_prompt =
             Some([base_caption |-> IF m.negative_prompt = None THEN EmptyString
                                    ELSE m.negative_prompt[1],
                   char_captions |-> ucCaptions(m.characterPrompts),
                   legacy_uc |-> IsTrue(m.legacy_uc)])]

handleModelSpecificSettings(m) ==
    IF m.model # None /\ m.model[1] \in v4Models
    THEN [m EXCEPT !.sm = None, !.sm_dyn = None]
    ELSE m

handleSamplerSpecificSettings(m) ==
    IF m.sampler = Some(EULER_ANC)
    THEN [m EXCEPT !.deliberate_euler_ancestral_bug = Some(FALSE),
                   !.prefer_brownian = Some(TRUE)]
    ELSE m

handleInpaintImg2ImgStrength(m) ==
    IF m.model[1] \in {"V4_5", "V4_5_INP"}
    THEN LET s == IF m.inpaintImg2ImgStrength # None THEN m.inpaintImg2ImgStrength
                  ELSE OrElse(m.strength, 10)
         IN [m EXCEPT !.inpaintImg2ImgStrength = s,
                      !.img2img = IF s[1] < 10
                                  THEN Some([strength |-> s[1], color_correct |-> TRUE])
                                  ELSE None]
    ELSE m

\* processMetadata after handleResolution
normalizeRest(m, random) ==
    handleInpaintImg2ImgStrength(
      handleSamplerSpecificSettings(
        handleModelSpecificSettings(
          handleV4NegativePrompt(
            handleV4Prompt(
              handleStream(
                handleCharacterPrompts(
                  handleUseCoords(
                    handleActionSpecificParameters(
                      dedupPrompts(
                        handleQualityTags(
                          handleUcPreset(m))), random.extra_noise_seed)))))))))

\* MetadataProcessor.processMetadata: None where it throws; random holds the
\* values Math.random() gives
processMetadata(m, random) ==
    LET sized == handleResolutionOf(applyDefaultValues(m, random.seed))
    IN IF sized = None THEN None ELSE Some(normalizeRest(sized[1], random))

\* NovelAI.processMetadata, lines 257-338: the sampler and the two flags of
\* its result.  It writes the flags under the keys deliberateEulerAncestralBug
\* and preferBrownian, which prepareMetadataForApi emits after, and so in
\* place of, the caller's deliberate_euler_ancestral_bug and prefer_brownian.
NovelAI_samplerSettings(m) ==
    LET model == IF m.model = None THEN "V4" ELSE m.model[1]
        sampler == IF m.sampler = None THEN EULER_ANC ELSE m.sampler[1]
        forced == model \in {"V4", "V4_CUR", "V4_5_CUR"} /\ sampler = EULER_ANC
    IN [sampler |-> sampler,
        deliberate_euler_ancestral_bug |->
            IF forced THEN Some(FALSE) ELSE m.deliberate_euler_ancestral_bug,
        prefer_brownian |-> IF forced THEN Some(TRUE) ELSE m.prefer_brownian]

----------------------------------------------------------------------------
(* withRetry, and the operations generateImage and useDirectorTool wrap *)

Ops == {"withRetry", "generateImage", "useDirectorTool"}

ClientOps == {"generateImage", "useDirectorTool"}

\* fn() is called: an arbitrary operation starts running; the client's
\* operation arms its abort timer and calls fetch
Invoke ==
    /\ invocations' = invocations + 1
    /\ inFlight' = inFlight + 1
    /\ IF op \in ClientOps
       THEN /\ fpc' = "fetching"
            /\ timerArmed' = TRUE
            /\ fetches' = fetches + 1
       ELSE /\ fpc' = "running"
            /\ UNCHANGED <<timerArmed, fetches>>

\* for (attempt = a; attempt <= config.maxRetries; ...) at its condition
LoopHead(a) ==
    /\ attempt' = a
    /\ IF AttemptLeq(a, ConfigMaxRetries(rcfg))
       THEN /\ rpc' = "calling"
            /\ Invoke
            /\ UNCHANGED outcome
       ELSE /\ rpc' = "threw"
            /\ outcome' = [kind |-> "error", value |-> 0,
                           error |-> IF lastError = NoError THEN FailedAfterRetries
                                     ELSE lastError]
            /\ UNCHANGED <<invocations, inFlight, fpc, timerArmed, fetches>>

\* generateImage up to its call of withRetry
Normalize ==
    /\ rpc = "normalize"
    /\ payload' = NovelAI_processMetadata(req)
    /\ rpc' = "enter"
    /\ UNCHANGED <<op, rcfg, req, attempt, lastError, lastThrown, invocations, inFlight,
                   successes, delays, fetches, fpc, timerArmed, outcome>>
    /\ UNCHANGED <<parserVars, pureVars>>

\* withRetry up to its first await
Enter ==
    /\ rpc = "enter"
    /\ IF ~ConfigEnabled(rcfg)
       THEN /\ rpc' = "once"
            /\ Invoke
            /\ UNCHANGED <<attempt, outcome>>
       ELSE LoopHead(0)
    /\ UNCHANGED <<op, rcfg, req, payload, lastError, lastThrown, successes, delays>>
    /\ UNCHANGED <<parserVars, pureVars>>

\* the wrapped operation resolved with a value
Resolves ==
    /\ rpc \in {"once", "calling"}
    /\ rpc' = "returned"
    /\ outcome' = [kind |-> "value", value |-> invocations, error |-> NoError]
    /\ successes' = successes + 1
    /\ inFlight' = inFlight - 1
    /\ fpc' = "idle"
    /\ UNCHANGED <<op, rcfg, req, payload, attempt, lastError, lastThrown, invocations,
                   delays, fetches>>
    /\ UNCHANGED <<parserVars, pureVars>>

\* the wrapped operation rejected with error e: the catch block of withRetry
Rejects(e) ==
    LET error == [e EXCEPT !.id = invocations]
    IN /\ rpc \in {"once", "calling"}
       /\ inFlight' = inFlight - 1
       /\ fpc' = "idle"
       /\ lastThrown' = error
       /\ IF rpc = "once"
          THEN /\ rpc' = "threw"
               /\ outcome' = [kind |-> "error", value |-> 0, error |-> error]
               /\ UNCHANGED <<lastError, delays>>
          ELSE /\ lastError' = error
               /\ IF GivesUp(error, rcfg, attempt)
                  THEN /\ rpc' = "threw"
                       /\ outcome' = [kind |-> "error", value |-> 0, error |-> Rethrown(error)]
                       /\ UNCHANGED delays
                  ELSE /\ rpc' = "backoff"
                       /\ delays' = delays + 1
                       /\ UNCHANGED outcome
       /\ UNCHANGED <<op, rcfg, req, payload, attempt, invocations, successes, fetches>>
       /\ UNCHANGED <<parserVars, pureVars>>

\* an arbitrary wrapped operation settles
FnSettles ==
    /\ op = "withRetry"
    /\ fpc = "running"
    /\ UNCHANGED timerArmed
    /\ \/ Resolves
       \/ \E e \in GenericErrors : Rejects(e)

\* fetch rejects for a network failure; finally clears the timer
FetchFails ==
    /\ fpc = "fetching"
    /\ timerArmed' = FALSE
    /\ Rejects(NetworkError)

\* the abort timer fires while fetch is pending: fetch rejects with an
\* AbortError, which the catch replaces by a plain Error
TimerFires ==
    /\ fpc = "fetching"
    /\ timerArmed
    /\ timerArmed' = FALSE
    /\ Rejects(TimedOutError)

\* the response arrives with a status that is not ok: handleResponse throws
ResponseNotOk(st) ==
    /\ fpc = "fetching"
    /\ timerArmed' = FALSE
    /\ Rejects(StatusError(st))

\* the response arrives and is ok: clearTimeout, then the body is read
ResponseOk ==
    /\ fpc = "fetching"
    /\ fpc' = "reading"
    /\ timerArmed' = FALSE
    /\ UNCHANGED <<op, rcfg, req, payload, rpc, attempt, lastError, lastThrown, invocations,
                   inFlight, successes, delays, fetches, outcome>>
    /\ UNCHANGED <<parserVars, pureVars>>

\* the body was read: the content type is compared (generateImage) and the
\* archive loaded; a director response that is not an archive is the image
BodyRead(ctypeOk, archive) ==
    /\ fpc = "reading"
    /\ UNCHANGED timerArmed
    /\ IF op = "generateImage" /\ ~ctypeOk THEN Rejects(PlainError("contentType"))
       ELSE IF archive = "ok" THEN Resolves
       ELSE IF op = "useDirectorTool" /\ archive = "notArchive" THEN Resolves
       ELSE Rejects(PlainError("decode"))

\* the backoff delay has passed: attempt++ and the loop condition
BackoffElapsed ==
    /\ rpc = "backoff"
    /\ LoopHead(attempt + 1)
    /\ UNCHANGED <<op, rcfg, req, payload, lastError, lastThrown, successes, delays>>
    /\ UNCHANGED <<parserVars, pureVars>>

----------------------------------------------------------------------------
(* The stream parser fed chunk by chunk, every generator consumed to its end *)

ParserInit ==
    /\ frames \in SeqsUpTo(FrameCatalog, MaxRecords) \ { <<>> }
    /\ stream = Flatten(frames)
    /\ pos = 0
    /\ buffer = <<>>
    /\ expectedMessageLength = NULL
    /\ gens = <<>>
    /\ events = <<>>
    /\ decoded = <<>>
    /\ chunksFed = 0
    /\ cutMidPrefix = FALSE
    /\ cutMidBody = FALSE
    /\ fedEmptyChunk = FALSE
    /\ abandoned = FALSE
    /\ oneShot = <<>>

\* no call under way
RetryIdle ==
    /\ op = "withRetry"
    /\ rcfg = [enabled |-> "absent", maxKind |-> "absent", maxVal |-> 0,
               codesGiven |-> FALSE, codes |-> {}]
    /\ req = NoRequest
    /\ payload = [width |-> NoDim, height |-> NoDim]
    /\ rpc = "none"
    /\ attempt = 0
    /\ lastError = NoError
    /\ lastThrown = NoError
    /\ invocations = 0
    /\ inFlight = 0
    /\ successes = 0
    /\ delays = 0
    /\ fetches = 0
    /\ fpc = "idle"
    /\ timerArmed = FALSE
    /\ outcome = [kind |-> "pending", value |-> 0, error |-> NoError]

\* no normalization, payload or cost call
PureIdle ==
    /\ metadata = <<>>
    /\ passes = <<>>
    /\ clientResult = <<>>
    /\ wireKeys = {}
    /\ wireOut = <<>>
    /\ costIn = <<>>
    /\ costOut = <<>>
    /\ call = <<>>
    /\ returned = <<>>

Init == ParserInit /\ RetryIdle /\ PureIdle

Next ==
    \/ \E k \in 0..(Len(stream) - pos) : FeedChunk(k)
    \/ \E g \in 1..Len(gens) : GenResume(g)
    \/ \E g \in 1..Len(gens) : GenIter(g)
    \/ ParseOneShot

Spec == Init /\ [][Next]_vars

----------------------------------------------------------------------------
(* One call of withRetry, generateImage or useDirectorTool *)

\* no stream
ParserIdle ==
    /\ frames = <<>>
    /\ stream = <<>>
    /\ pos = 0
    /\ buffer = <<>>
    /\ expectedMessageLength = NULL
    /\ gens = <<>>
    /\ events = <<>>
    /\ decoded = <<>>
    /\ chunksFed = 0
    /\ cutMidPrefix = FALSE
    /\ cutMidBody = FALSE
    /\ fedEmptyChunk = FALSE
    /\ abandoned = FALSE
    /\ oneShot = <<>>

RetryInit ==
    /\ ParserIdle
    /\ PureIdle
    /\ op \in Ops
    /\ rcfg \in { c \in RetryConfigs : CanonicalConfig(c) }
    /\ req \in IF op = "generateImage" THEN Requests ELSE { NoRequest }
    /\ payload = [width |-> NoDim, height |-> NoDim]
    /\ rpc = IF op = "generateImage" THEN "normalize" ELSE "enter"
    /\ attempt = 0
    /\ lastError = NoError
    /\ lastThrown = NoError
    /\ invocations = 0
    /\ inFlight = 0
    /\ successes = 0
    /\ delays = 0
    /\ fetches = 0
    /\ fpc = "idle"
    /\ timerArmed = FALSE
    /\ outcome = [kind |-> "pending", value |-> 0, error |-> NoError]

RetryNext ==
    \/ Normalize
    \/ Enter
    \/ FnSettles
    \/ FetchFails
    \/ TimerFires
    \/ \E st \in ErrorStatuses : ResponseNotOk(st)
    \/ ResponseOk
    \/ \E ctypeOk \in BOOLEAN, archive \in {"ok", "notArchive", "broken"} :
           BodyRead(ctypeOk, archive)
    \/ BackoffElapsed

RetrySpec == RetryInit /\ [][RetryNext]_vars

\* the same parser where the consumer always goes on iterating a generator
ParserNext ==
    \/ \E k \in 0..(Len(stream) - pos) : FeedChunk(k)
    \/ \E g \in 1..Len(gens) : GenResume(g)
    \/ \E g \in 1..Len(gens) : GenIter(g)

LiveSpec ==
    /\ Init
    /\ [][ParserNext]_vars
    /\ WF_vars(\E g \in 1..Len(gens) : GenResume(g))
    /\ WF_vars(\E g \in 1..Len(gens) : GenIter(g))

\* as Abandon, but the bytes still buffered go with the generator
AbandonClearsBuffer(g) ==
    /\ g \in 1..Len(gens)
    /\ gens[g].pc = "yielded"
    /\ gens' = SubSeq(gens, 1, g - 1) \o SubSeq(gens, g + 1, Len(gens))
    /\ abandoned' = (abandoned \/ FeedIter(buffer, expectedMessageLength).kind = "record")
    /\ buffer' = <<>>
    /\ UNCHANGED <<frames, stream, pos, expectedMessageLength, events, decoded,
                   chunksFed, cutMidPrefix, cutMidBody, fedEmptyChunk, oneShot>>
    /\ UNCHANGED <<retryVars, pureVars>>

\* the consumer stops iterating a generator that has yielded an event: the
\* generator never runs again
Abandon(g) ==
    /\ g \in 1..Len(gens)
    /\ gens[g].pc = "yielded"
    /\ gens' = SubSeq(gens, 1, g - 1) \o SubSeq(gens, g + 1, Len(gens))
    /\ abandoned' = (abandoned \/ FeedIter(buffer, expectedMessageLength).kind = "record")
    /\ UNCHANGED <<frames, stream, pos, buffer, expectedMessageLength, events, decoded,
                   chunksFed, cutMidPrefix, cutMidBody, fedEmptyChunk, oneShot>>
    /\ UNCHANGED <<retryVars, pureVars>>

\* the parser with a consumer that may stop iterating a generator after an
\* event and then goes on with the next feedChunk call
AbandonSpec ==
    Init /\ [][ParserNext \/ \E g \in 1..Len(gens) : Abandon(g)]_vars

\* feedChunk(chunk) with the next k bytes of the stream, called while the
\* generator of an earlier call is not finished
FeedChunkEarly(k) ==
    /\ Len(gens) = 1
    /\ pos + k <= Len(stream)
    /\ gens' = Append(gens, [chunk |-> SubSeq(stream, pos + 1, pos + k), pc |-> "start"])
    /\ pos' = pos + k
    /\ chunksFed' = IF chunksFed < 2 THEN chunksFed + 1 ELSE 2
    /\ cutMidPrefix' = (cutMidPrefix \/ (pos + k < Len(stream) /\ InsidePrefix(pos + k)))
    /\ cutMidBody' = (cutMidBody \/ (pos + k < Len(stream) /\ InsideBody(pos + k)))
    /\ fedEmptyChunk' = (fedEmptyChunk \/ k = 0)
    /\ UNCHANGED <<frames, stream, buffer, expectedMessageLength, events, decoded, oneShot,
                   abandoned>>
    /\ UNCHANGED <<retryVars, pureVars>>

\* the parser with a consumer that calls feedChunk before the generator of
\* the call before is finished, and iterates the generators in any order
OverlapSpec ==
    Init /\ [][ParserNext \/ \E k \in 0..(Len(stream) - pos) : FeedChunkEarly(k)]_vars

----------------------------------------------------------------------------
(* The Metadata objects given to processMetadata *)

\* { prompt: "1girl" }: every other key missing
BaseMetadata ==
    [model |-> None, action |-> None, resPreset |-> NoPreset, width |-> NoDim,
     height |-> NoDim, ucPreset |-> None, qualityToggle |-> None,
     prompt |-> Some(<<"1girl">>), negative_prompt |-> None, n_samples |-> None,
     steps |-> None, seed |-> Some(1), extra_noise_seed |-> None, sampler |-> None,
     sm |-> None, sm_dyn |-> None, params_version |-> None, strength |-> None,
     noise |-> None, characterPrompts |-> <<>>, use_coords |-> None,
     v4_prompt |-> None, v4_negative_prompt |-> None, legacy_uc |-> None,
     director_reference_images |-> None,
     director_reference_descriptions |-> None,
     director_reference_information_extracted |-> None,
     director_reference_strength_values |-> None,
     director_reference_secondary_strength_values |-> None,
     deliberate_euler_ancestral_bug |-> None, prefer_brownian |-> None,
     inpaintImg2ImgStrength |-> None, img2img |-> None, stream |-> None]

\* requests that differ in resPreset, width and height
ResolutionInputs ==
    { [BaseMetadata EXCEPT !.resPreset = p, !.width = w, !.height = h] :
          p \in {NoPreset, "small_square", "unknown_preset"},
          w \in {NoDim, -64, 0, 10, 1000, 1024, 2048},
          h \in {NoDim, -64, 0, 10, 1000, 1024, 2048} }

\* requests that differ in the prompts and in what is appended to them
PromptInputs ==
    { [BaseMetadata EXCEPT !.model = mo, !.ucPreset = uc, !.qualityToggle = q,
                           !.prompt = p, !.negative_prompt = n, !.seed = s] :
          mo \in {None} \cup { Some(x) : x \in {"V3", "V4", "V4_CUR_INP", "V4_5_CUR", "FURRY"} },
          uc \in {None, Some(1), Some(3)},
          q \in {None, Some(FALSE)},
          p \in {None, Some(EmptyString), Some(<<"1girl", "Cute", "cute">>),
                 Some(<<"masterpiece", "", "1girl">>)},
          n \in {None, Some(<<"NSFW", "bad">>)},
          s \in {None, Some(0)} }

CharacterPrompts ==
    { [enabled |-> None, prompt |-> Some(<<"girl">>), uc |-> None, center |-> None],
      [enabled |-> Some(TRUE), prompt |-> Some(<<"boy">>), uc |-> Some(EmptyString),
       center |-> Some([x |-> Some(5), y |-> Some(5)])],
      [enabled |-> Some(TRUE), prompt |-> None, uc |-> Some(<<"hat", "hat">>),
       center |-> Some([x |-> Some(1), y |-> Some(5)])],
      [enabled |-> Some(FALSE), prompt |-> Some(<<"cat">>), uc |-> None,
       center |-> Some([x |-> Some(9), y |-> Some(9)])],
      [enabled |-> Some(FALSE), prompt |-> Some(<<"dog">>), uc |-> Some(<<"hat">>),
       center |-> Some([x |-> Some(5), y |-> Some(5)])] }

SuppliedV4Prompt == [base_caption |-> <<"supplied">>, char_captions |-> <<>>,
                     use_coords |-> TRUE, use_order |-> TRUE]

\* requests that differ in the character prompts
CharacterInputs ==
    { [BaseMetadata EXCEPT !.model = mo, !.characterPrompts = cps, !.v4_prompt = v] :
          mo \in {None, Some("V3")},
          cps \in SeqsUpTo(CharacterPrompts, MaxCharacters),
          v \in {None, Some(SuppliedV4Prompt)} }

\* the arrays of length at most n whose i-th element is base + i
ArraysUpTo(n, base) == { [i \in 1..k |-> base + i] : k \in 0..n }

SuppliedDescription(i) == [base_caption |-> <<"style">>, char_captions |-> <<>>,
                           legacy_uc |-> (i = 1)]

\* requests that differ in the director reference arrays
DirectorInputs ==
    { [BaseMetadata EXCEPT !.director_reference_images = im,
                           !.director_reference_descriptions = de,
                           !.director_reference_information_extracted = ie,
                           !.director_reference_strength_values = sv,
                           !.director_reference_secondary_strength_values = sv2] :
          im \in {None} \cup { Some([i \in 1..k |-> i]) : k \in 0..MaxImages },
          de \in {None} \cup { Some([i \in 1..k |-> SuppliedDescription(i)]) :
                                   k \in {0, MaxImages + 1} },
          ie \in {None} \cup { Some(a) : a \in ArraysUpTo(MaxImages + 1, 10) },
          sv \in {None, Some(<<5>>)},
          sv2 \in {None} \cup { Some(a) : a \in ArraysUpTo(MaxImages + 1, 20) } }

\* requests that differ in model, action, sampler and the keys they decide
SettingsInputs ==
    { [BaseMetadata EXCEPT !.model = mo, !.action = ac, !.sampler = sa, !.sm = sm,
                           !.sm_dyn = sm, !.params_version = pv,
                           !.deliberate_euler_ancestral_bug = bug,
                           !.prefer_brownian = br, !.strength = st] :
          mo \in {None} \cup { Some(x) : x \in Models },
          ac \in {None, Some("generate"), Some("img2img")},
          sa \in {None, Some("k_euler"), Some(EULER_ANC)},
          sm \in {None, Some(TRUE)},
          pv \in {None, Some(1), Some(3)},
          bug \in {None, Some(TRUE)},
          br \in {None, Some(FALSE)},
          st \in {None, Some(5)} }

MetadataInputs ==
    ResolutionInputs \cup PromptInputs \cup CharacterInputs \cup DirectorInputs
        \cup SettingsInputs

\* the values Math.random() gives for seed and extra_noise_seed
RandomValues == [seed : {0, 7}, extra_noise_seed : {0, 7}]

----------------------------------------------------------------------------
(* processMetadata applied to a request, then to its own result *)

\* metadataProcessor.processMetadata on the request, or on the result of
\* the call before
ProcessMetadata ==
    /\ metadata # <<>>
    /\ Len(passes) < 2
    /\ passes # <<>> => passes[Len(passes)] # None
    /\ \E random \in RandomValues :
           passes' = Append(passes,
                            processMetadata(IF passes = <<>> THEN metadata
                                            ELSE passes[Len(passes)][1], random))
    /\ UNCHANGED <<metadata, clientResult, wireKeys, wireOut, costIn, costOut,
                 call, returned>>
    /\ UNCHANGED <<parserVars, retryVars>>

\* NovelAI.processMetadata on the request
ClientProcessMetadata ==
    /\ metadata # <<>>
    /\ clientResult = <<>>
    /\ clientResult' = <<NovelAI_samplerSettings(metadata)>>
    /\ UNCHANGED <<metadata, passes, wireKeys, wireOut, costIn, costOut,
                 call, returned>>
    /\ UNCHANGED <<parserVars, retryVars>>

MetaInit ==
    /\ ParserIdle
    /\ RetryIdle
    /\ metadata \in MetadataInputs
    /\ passes = <<>>
    /\ clientResult = <<>>
    /\ wireKeys = {}
    /\ wireOut = <<>>
    /\ costIn = <<>>
    /\ costOut = <<>>
    /\ call = <<>>
    /\ returned = <<>>

MetaNext == ProcessMetadata \/ ClientProcessMetadata

MetaSpec == MetaInit /\ [][MetaNext]_vars

----------------------------------------------------------------------------
(* Keys.  A key is the sequence of its characters. *)
Key ==
    [ prompt |-> <<"p", "r", "o", "m", "p", "t">>,
      model |-> <<"m", "o", "d", "e", "l">>,
      action |-> <<"a", "c", "t", "i", "o", "n">>,
      resPreset |-> <<"r", "e", "s", "P", "r", "e", "s", "e", "t">>,
      ucPreset |-> <<"u", "c", "P", "r", "e", "s", "e", "t">>,
      qualityToggle |-> <<"q", "u", "a", "l", "i", "t", "y", "T", "o", "g", "g", "l", "e">>,
      autoSmea |-> <<"a", "u", "t", "o", "S", "m", "e", "a">>,
      characterPrompts |-> <<"c", "h", "a", "r", "a", "c", "t", "e", "r", "P", "r", "o", "m", "p", "t", "s">>,
      v4_prompt |-> <<"v", "4", "_", "p", "r", "o", "m", "p", "t">>,
      v4_negative_prompt |-> <<"v", "4", "_", "n", "e", "g", "a", "t", "i", "v", "e", "_", "p", "r", "o", "m", "p", "t">>,
      v4Prompt |-> <<"v", "4", "P", "r", "o", "m", "p", "t">>,
      v4NegativePrompt |-> <<"v", "4", "N", "e", "g", "a", "t", "i", "v", "e", "P", "r", "o", "m", "p", "t">>,
      nSamples |-> <<"n", "S", "a", "m", "p", "l", "e", "s">>,
      n_samples |-> <<"n", "_", "s", "a", "m", "p", "l", "e", "s">>,
      sm |-> <<"s", "m">>,
      inpaintImg2ImgStrength |-> <<"i", "n", "p", "a", "i", "n", "t", "I", "m", "g", "2", "I", "m", "g", "S", "t", "r", "e", "n", "g", "t", "h">>,
      img2img |-> <<"i", "m", "g", "2", "i", "m", "g">>,
      strength |-> <<"s", "t", "r", "e", "n", "g", "t", "h">>,
      color_correct |-> <<"c", "o", "l", "o", "r", "_", "c", "o", "r", "r", "e", "c", "t">>,
      uc |-> <<"u", "c">>,
      enabled |-> <<"e", "n", "a", "b", "l", "e", "d">>,
      center |-> <<"c", "e", "n", "t", "e", "r">>,
      x |-> <<"x">>,
      y |-> <<"y">>,
      caption |-> <<"c", "a", "p", "t", "i", "o", "n">>,
      base_caption |-> <<"b", "a", "s", "e", "_", "c", "a", "p", "t", "i", "o", "n">>,
      char_captions |-> <<"c", "h", "a", "r", "_", "c", "a", "p", "t", "i", "o", "n", "s">>,
      use_coords |-> <<"u", "s", "e", "_", "c", "o", "o", "r", "d", "s">>,
      use_order |-> <<"u", "s", "e", "_", "o", "r", "d", "e", "r">>,
      legacy_uc |-> <<"l", "e", "g", "a", "c", "y", "_", "u", "c">> ]
UpperCase == <<"A", "B", "C", "D", "E", "F", "G", "H", "I", "J", "K", "L", "M",
               "N", "O", "P", "Q", "R", "S", "T", "U", "V", "W", "X", "Y", "Z">>

LowerCase == <<"a", "b", "c", "d", "e", "f", "g", "h", "i", "j", "k", "l", "m",
               "n", "o", "p", "q", "r", "s", "t", "u", "v", "w", "x", "y", "z">>

\* /[A-Z]/
IsUpper(c) == \E i \in 1..26 : UpperCase[i] = c

\* letter.toLowerCase()
LowerOf(c) == LowerCase[CHOOSE i \in 1..26 : UpperCase[i] = c]

\* str.replace(/[A-Z]/g, (letter) => `_${letter.toLowerCase()}`)
RECURSIVE camelToSnakeCase(_)
camelToSnakeCase(str) ==
    IF str = <<>> THEN <<>>
    ELSE (IF IsUpper(Head(str)) THEN <<"_", LowerOf(Head(str))>> ELSE <<Head(str)>>)
             \o camelToSnakeCase(Tail(str))

----------------------------------------------------------------------------
(* prepareMetadataForApi.  An object is the set of its entries; an entry   *)
(* has a key, the kind of its value and, for an object or an array of      *)
(* objects, the entries of that object.  The result is given as the set of *)
(* the paths emitted, each with the path of the entry it was made from.    *)

Entry(key, kind, sub) == [key |-> key, kind |-> kind, sub |-> sub]

Scalar(key) == Entry(key, "scalar", {})

\* the entries a Metadata object may hold, under both spellings the callers
\* and NovelAI.processMetadata use
MetadataEntries ==
    { Scalar(Key.prompt), Scalar(Key.resPreset),
      Scalar(Key.ucPreset), Scalar(Key.qualityToggle), Scalar(Key.autoSmea),
      Scalar(Key.nSamples), Scalar(Key.n_samples),
      Entry(Key.sm, "undefined", {}),
      Scalar(Key.inpaintImg2ImgStrength),
      Entry(Key.img2img, "object", { Scalar(Key.strength), Scalar(Key.color_correct) }),
      Entry(Key.characterPrompts, "array",
            { Scalar(Key.prompt), Scalar(Key.uc), Scalar(Key.enabled),
              Entry(Key.center, "object", { Scalar(Key.x), Scalar(Key.y) }) }),
      Entry(Key.v4_prompt, "object",
            { Entry(Key.caption, "object", { Scalar(Key.base_caption),
                                             Entry(Key.char_captions, "array", {}) }),
              Scalar(Key.use_coords), Scalar(Key.use_order) }),
      Entry(Key.v4Prompt, "object", {}),
      Entry(Key.v4NegativePrompt, "object", {}) }

\* the list camelCaseFields of prepareMetadataForApi
camelCaseFields == { Key.ucPreset, Key.qualityToggle, Key.autoSmea, Key.characterPrompts,
                     Key.v4_prompt, Key.v4_negative_prompt }

\* the list camelCaseFields of convertCharacterPrompts
characterCamelCaseFields == { Key.prompt, Key.uc, Key.enabled }

targetKey(key, fields) == IF key \in fields THEN key ELSE camelToSnakeCase(key)

\* convertObjectKeysToSnakeCase on the object at path from, emitted at path to
RECURSIVE convertObjectKeysToSnakeCase(_, _, _, _)
convertObjectKeysToSnakeCase(obj, fields, from, to) ==
    UNION { LET f == Append(from, e.key)
                t == Append(to, targetKey(e.key, fields))
            IN { [from |-> f, to |-> t] }
                   \cup (IF e.kind \in {"object", "array"}
                         THEN convertObjectKeysToSnakeCase(e.sub, fields, f, t)
                         ELSE {}) : e \in obj }

\* convertV4Prompt: the object it builds
convertV4Prompt(from, to) ==
    { [from |-> from, to |-> to],
      [from |-> Append(from, Key.caption), to |-> Append(to, Key.caption)],
      [from |-> from \o <<Key.caption, Key.base_caption>>,
       to |-> to \o <<Key.caption, Key.base_caption>>],
      [from |-> from \o <<Key.caption, Key.char_captions>>,
       to |-> to \o <<Key.caption, Key.char_captions>>],
      [from |-> Append(from, Key.use_coords), to |-> Append(to, Key.use_coords)],
      [from |-> Append(from, Key.use_order), to |-> Append(to, Key.use_order)] }

\* convertV4NegativePrompt: the object it builds
convertV4NegativePrompt(from, to) ==
    { [from |-> from, to |-> to],
      [from |-> Append(from, Key.caption), to |-> Append(to, Key.caption)],
      [from |-> from \o <<Key.caption, Key.base_caption>>,
       to |-> to \o <<Key.caption, Key.base_caption>>],
      [from |-> from \o <<Key.caption, Key.char_captions>>,
       to |-> to \o <<Key.caption, Key.char_captions>>],
      [from |-> Append(from, Key.legacy_uc), to |-> Append(to, Key.legacy_uc)] }

\* the body of Object.entries(parameters).forEach for one entry
formatEntry(e) ==
    IF e.kind = "undefined" THEN {}
    ELSE IF e.key = Key.v4Prompt
         THEN convertV4Prompt(<<e.key>>, <<Key.v4_prompt>>)
    ELSE IF e.key = Key.v4NegativePrompt
         THEN convertV4NegativePrompt(<<e.key>>, <<Key.v4_negative_prompt>>)
    ELSE IF e.key = Key.characterPrompts /\ e.kind = "array"
         THEN { [from |-> <<e.key>>, to |-> <<Key.characterPrompts>>] }
                  \cup convertObjectKeysToSnakeCase(e.sub, characterCamelCaseFields,
                                                    <<e.key>>, <<Key.characterPrompts>>)
    ELSE LET t == targetKey(e.key, camelCaseFields)
         IN { [from |-> <<e.key>>, to |-> <<t>>] }
                \cup (IF e.kind = "object"
                      THEN convertObjectKeysToSnakeCase(e.sub, camelCaseFields, <<e.key>>, <<t>>)
                      ELSE {})

\* prepareMetadataForApi: the paths of payload.parameters
prepareMetadataForApi(obj) ==
    UNION { formatEntry(e) :
                e \in { x \in obj : x.key \notin {Key.prompt, Key.model, Key.action,
                                                  Key.resPreset} } }

\* prepareMetadataForApi on the object
PrepareMetadataForApi ==
    /\ wireKeys # {}
    /\ wireOut = <<>>
    /\ wireOut' = <<prepareMetadataForApi(wireKeys)>>
    /\ UNCHANGED <<metadata, passes, clientResult, wireKeys, costIn, costOut,
                 call, returned>>
    /\ UNCHANGED <<parserVars, retryVars>>

WireInit ==
    /\ ParserIdle
    /\ RetryIdle
    /\ metadata = <<>>
    /\ passes = <<>>
    /\ clientResult = <<>>
    /\ wireKeys \in (SUBSET MetadataEntries) \ { {} }
    /\ wireOut = <<>>
    /\ costIn = <<>>
    /\ costOut = <<>>
    /\ call = <<>>
    /\ returned = <<>>

WireNext == PrepareMetadataForApi

WireSpec == WireInit /\ [][WireNext]_vars

----------------------------------------------------------------------------
(* calculateCost.  The code computes in floating point; the model computes  *)
(* the same numbers in integers.  Widths and heights are multiples of 64,   *)
(* so a resolution is a whole number of 64 x 64 blocks, and the two         *)
(* coefficients are given per block, times CostScale.  smeaFactor is held   *)
(* in tenths and strength in hundredths.  unnamed/part_005 holds the same   *)
(* function reading n_samples and sm_dyn for nSamples and smDyn.            *)

MaxSteps == 30      \* largest steps value of a call
MaxSamples == 3     \* largest nSamples value of a call

\* Math.ceil(a / b) for a >= 0, b > 0
CeilDiv(a, b) == (a + b - 1) \div b

Max(a, b) == IF a >= b THEN a ELSE b

\* the pixels of a 64 x 64 block
BlockPixels == 4096

\* the scale of the two coefficients below
CostScale == 10000000

\* 2951823174884865e-21 * BlockPixels * CostScale, rounded
BaseCostPerBlock == 120907

\* 5.753298233447344e-7 * BlockPixels * CostScale, rounded
StepCostPerBlock == 23566

\* strength, in hundredths
strengthOf(m) ==
    IF m.action = Some("img2img") /\ m.strength # None /\ m.strength # Some(0)
    THEN m.strength[1]
    ELSE 100

\* smeaFactor, in tenths
smeaFactorOf(m) ==
    IF m.model \in {Some("V4"), Some("V4_CUR"), Some("V4_5_CUR")}
    THEN IF IsTrue(m.autoSmea) THEN 12 ELSE 10
    ELSE IF IsTrue(m.smDyn) THEN 14
         ELSE IF IsTrue(m.sm) THEN 12 ELSE 10

adjustedResolutionOf(m) ==
    LET width == OrIfZero(m.width, 1024)[1]
        height == OrIfZero(m.height, 1024)[1]
        resolution == Max(width * height, 65536)
    IN  IF resolution > 832 * 1216 /\ resolution <= 1024 * 1024
        THEN 832 * 1216
        ELSE resolution

opusDiscount(m, isOpus, steps) ==
    isOpus /\ steps <= 28 /\ adjustedResolutionOf(m) <= 1024 * 1024

calculateCost(m, isOpus) ==
    LET steps == OrIfZero(m.steps, 28)[1]
        nSamples == OrIfZero(m.nSamples, 1)[1]
        blocks == adjustedResolutionOf(m) \div BlockPixels
        ceiled == CeilDiv(blocks * (BaseCostPerBlock + StepCostPerBlock * steps),
                          CostScale)
        perSample == Max(CeilDiv(ceiled * smeaFactorOf(m) * strengthOf(m), 1000),
                         2)
    IN  perSample * (nSamples - (IF opusDiscount(m, isOpus, steps) THEN 1 ELSE 0))

\* the requests that are costed, with the given steps and nSamples
CostMetadata(steps, nSamples) ==
    LET sizes ==
            { <<None, None>>, <<Some(0), Some(64)>>, <<Some(64), Some(64)>>,
              <<Some(832), Some(1216)>>, <<Some(1536), Some(1024)>> }
        strengths ==
            { <<Some("generate"), None>>, <<Some("generate"), Some(50)>>,
              <<Some("img2img"), Some(0)>>, <<Some("img2img"), Some(50)>> }
        smea ==
            { [model |-> Some("V3"), autoSmea |-> None, sm |-> s, smDyn |-> d] :
                s \in {None, Some(TRUE)}, d \in {None, Some(TRUE)} }
            \cup
            { [model |-> Some(mo), autoSmea |-> a, sm |-> d, smDyn |-> d] :
                mo \in {"V4", "V4_INP"},
                a \in {None, Some(TRUE)}, d \in {None, Some(TRUE)} }
    IN  { [steps |-> steps, nSamples |-> nSamples,
           width |-> size[1], height |-> size[2],
           action |-> st[1], strength |-> st[2],
           model |-> sf.model, autoSmea |-> sf.autoSmea, sm |-> sf.sm,
           smDyn |-> sf.smDyn] :
            size \in sizes, st \in strengths, sf \in smea }

\* the first of two calls that differ in steps only
StepsCalls ==
    UNION { CostMetadata(Some(s), n) : s \in 0..MaxSteps, n \in {None, Some(2)} }

\* the first of two calls that differ in nSamples only
SamplesCalls ==
    UNION { CostMetadata(s, Some(n)) :
              s \in {None, Some(0), Some(28), Some(29)}, n \in 0..MaxSamples }

CalculateCost ==
    /\ costIn # <<>>
    /\ costOut = <<>>
    /\ LET c == costIn[1]
           raised == [c.metadata EXCEPT ![c.key] = Some(c.more)]
       IN  costOut' = << <<calculateCost(c.metadata, c.isOpus),
                           calculateCost(raised, c.isOpus)>> >>
    /\ UNCHANGED <<metadata, passes, clientResult, wireKeys, wireOut, costIn,
                 call, returned>>
    /\ UNCHANGED <<parserVars, retryVars>>

CostInit ==
    /\ ParserIdle
    /\ RetryIdle
    /\ metadata = <<>>
    /\ passes = <<>>
    /\ clientResult = <<>>
    /\ wireKeys = {}
    /\ wireOut = <<>>
    /\ \E isOpus \in BOOLEAN :
          \/ \E m \in StepsCalls : \E v \in (m.steps[1] + 1)..MaxSteps :
                costIn = << [metadata |-> m, isOpus |-> isOpus,
                             key |-> "steps", more |-> v] >>
          \/ \E m \in SamplesCalls : \E v \in (m.nSamples[1] + 1)..MaxSamples :
                costIn = << [metadata |-> m, isOpus |-> isOpus,
                             key |-> "nSamples", more |-> v] >>
    /\ costOut = <<>>
    /\ call = <<>>
    /\ returned = <<>>

CostNext == CalculateCost

CostSpec == CostInit /\ [][CostNext]_vars

----------------------------------------------------------------------------
(* The calls that decode a response or clean a prompt.  call holds the      *)
(* function and its argument, returned what it gave back.                   *)

MaxEntries == 3     \* entries of an archive

\* The names of the entries of an archive, each the sequence of its pieces.
\* index is the array index a name is the canonical decimal form of, -1 for
\* any other name.
EntryNames ==
    { [text |-> <<"a.png">>, index |-> -1, dir |-> FALSE],
      [text |-> <<"b.png">>, index |-> -1, dir |-> FALSE],
      [text |-> <<"d", "/">>, index |-> -1, dir |-> TRUE],
      [text |-> <<"invalid zip", "/">>, index |-> -1, dir |-> TRUE],
      [text |-> <<"0">>, index |-> 0, dir |-> FALSE],
      [text |-> <<"1">>, index |-> 1, dir |-> FALSE] }

\* The archives of a response: the entries in the order of the archive,
\* the data of an entry told apart by its position.
Archives ==
    UNION { { [i \in 1..n |-> [name |-> f[i].text, index |-> f[i].index,
                               dir |-> f[i].dir, data |-> i]] :
                f \in [1..n -> EntryNames] } : n \in 0..MaxEntries }

\* zip.files after JSZip.loadAsync: an object keyed by entry name, given as
\* its properties in creation order.  An entry whose name is already a key
\* replaces the value of that key.
RECURSIVE zipFiles(_)
zipFiles(entries) ==
    IF entries = <<>> THEN <<>>
    ELSE LET files == zipFiles(SubSeq(entries, 1, Len(entries) - 1))
             e == entries[Len(entries)]
         IN  IF \E j \in 1..Len(files) : files[j].name = e.name
             THEN [j \in 1..Len(files) |->
                      IF files[j].name = e.name THEN e ELSE files[j]]
             ELSE Append(files, e)

\* Object.keys(files), each key with its value: the keys that are array
\* indices in ascending order, then the other keys in creation order
ObjectKeys(files) ==
    LET ints == {j \in 1..Len(files) : files[j].index >= 0}
        rank(j) == Cardinality({k \in ints : files[k].index <= files[j].index})
    IN  [r \in 1..Cardinality(ints) |-> files[CHOOSE j \in ints : rank(j) = r]]
        \o SelectSeq(files, LAMBDA e : e.index < 0)

\* the loop of generateImage over the entries; an image is given by the
\* index in its file name and by its data
RECURSIVE archiveLoop(_, _, _)
archiveLoop(keys, images, index) ==
    IF keys = <<>> THEN images
    ELSE IF ~Head(keys).dir
         THEN archiveLoop(Tail(keys),
                          Append(images, [p |-> index, data |-> Head(keys).data]),
                          index + 1)
         ELSE archiveLoop(Tail(keys), images, index)

GenerateImageArchive ==
    /\ call # <<>>
    /\ call[1].fn = "generateImage"
    /\ returned = <<>>
    /\ returned' = <<archiveLoop(ObjectKeys(zipFiles(call[1].arg)), <<>>, 0)>>
    /\ UNCHANGED <<metadata, passes, clientResult, wireKeys, wireOut, costIn, costOut,
                   call>>
    /\ UNCHANGED <<parserVars, retryVars>>

\* message.includes(text), a message being the sequence of its pieces
includes(message, text) == \E i \in 1..Len(message) : message[i] = text

\* handleDirectorDecompression.  load is the message of the error
\* JSZip.loadAsync throws, None when it gives the archive; extract is the
\* message of the error async("uint8array") throws for the first file, None
\* when it gives the data.
handleDirectorDecompression(compressedData) ==
    LET Throw(message) == [kind |-> "throw", message |-> message, data |-> 0]
        fileNames == ObjectKeys(zipFiles(compressedData.entries))
        firstFile == fileNames[1]
        tried ==
            IF compressedData.load # None THEN Throw(compressedData.load[1])
            ELSE IF Len(fileNames) = 0
            THEN Throw(<<"ZIP file is empty or invalid">>)
            ELSE IF firstFile.dir
            THEN Throw(<<"Failed to extract file ">> \o firstFile.name \o <<" from ZIP">>)
            ELSE IF compressedData.extract # None
            THEN Throw(compressedData.extract[1])
            ELSE [kind |-> "return", message |-> <<>>, data |-> firstFile.data]
    IN  IF /\ tried.kind = "throw"
           /\ \/ includes(tried.message, "invalid zip")
              \/ includes(tried.message, "Central Directory header not found")
        THEN [kind |-> "raw", message |-> <<>>, data |-> 0]
        ELSE tried

HandleDirectorDecompression ==
    /\ call # <<>>
    /\ call[1].fn = "handleDirectorDecompression"
    /\ returned = <<>>
    /\ returned' = <<handleDirectorDecompression(call[1].arg)>>
    /\ UNCHANGED <<metadata, passes, clientResult, wireKeys, wireOut, costIn, costOut,
                   call>>
    /\ UNCHANGED <<parserVars, retryVars>>

MaxLines == 4       \* lines of an SSE text

\* The lines text.split('\n') gives, each after trim(): field is what stands
\* before the first colon and value what stands after it, both trimmed;
\* colon tells whether the line holds a colon; the empty line has no field.
\* A value is a piece of a JSON text in the encoding of the frame bodies.
SSELines ==
    { [field |-> "", colon |-> FALSE, value |-> <<>>],
      [field |-> "data", colon |-> FALSE, value |-> <<>>],
      [field |-> "event", colon |-> TRUE, value |-> <<2, 1>>] }
    \cup
    { [field |-> "data", colon |-> TRUE, value |-> v] :
        v \in { <<>>, <<2>>, <<1>>, <<2, 1>>, <<2, 3>> } }

\* the try block of parseSSEEvents: JSON.parse, the event_type test, the push
parseSSEData(data, evs) ==
    IF data # <<>> /\ JsonIsEvent(data)
    THEN Append(evs, createMsgpackEvent(data[2]))
    ELSE evs

\* The loop of parseSSEEvents.  data is currentEvent.data, <<>> when it is
\* undefined or the empty string.
RECURSIVE sseLoop(_, _, _)
sseLoop(lines, data, evs) ==
    IF lines = <<>> THEN [data |-> data, events |-> evs]
    ELSE LET line == Head(lines)
         IN  IF line.field = "" /\ ~line.colon
             THEN sseLoop(Tail(lines), <<>>, parseSSEData(data, evs))
             ELSE IF line.colon /\ line.field = "data"
             THEN sseLoop(Tail(lines), data \o line.value, evs)
             ELSE sseLoop(Tail(lines), data, evs)

\* parseSSEEvents without the handling of the last event
parseSSEEventsNoLastEvent(lines) == sseLoop(lines, <<>>, <<>>).events

parseSSEEvents(lines) ==
    LET end == sseLoop(lines, <<>>, <<>>)
    IN  parseSSEData(end.data, end.events)

ParseSSEEvents ==
    /\ call # <<>>
    /\ call[1].fn = "parseSSEEvents"
    /\ returned = <<>>
    /\ returned' = <<parseSSEEvents(call[1].arg)>>
    /\ UNCHANGED <<metadata, passes, clientResult, wireKeys, wireOut, costIn, costOut,
                   call>>
    /\ UNCHANGED <<parserVars, retryVars>>

MaxTags == 3        \* pieces of a prompt given to deduplicateTags

\* deduplicateTags of utils.ts (unnamed/part_003, the second copy), which
\* keeps the tags in an object keyed by the lower-cased tag.  "key in object"
\* also holds for the keys an object inherits, and Object.values gives the
\* keys that are array indices first.
utils_deduplicateTags(prompt) ==
    LET tags == SelectSeq(prompt, LAMBDA t : t # "")
        inherited == {"constructor", "__proto__"}
        indexOf(t) == CASE t = "1" -> 1 [] t = "2" -> 2 [] OTHER -> -1
        lowercaseToOriginal[n \in 0..Len(tags)] ==
            IF n = 0 THEN <<>>
            ELSE LET o == lowercaseToOriginal[n - 1]
                     lowercase == toLowerCase(tags[n])
                 IN  IF \/ lowercase \in inherited
                        \/ \E j \in 1..Len(o) : o[j].name = lowercase
                     THEN o
                     ELSE Append(o, [name |-> lowercase, index |-> indexOf(lowercase),
                                     tag |-> tags[n]])
        values == ObjectKeys(lowercaseToOriginal[Len(tags)])
    IN  IF prompt = EmptyString THEN prompt
        ELSE [i \in 1..Len(values) |-> values[i].tag]

\* a call of one of the two deduplicateTags, and a call of the same on the result
DeduplicateTags ==
    /\ call # <<>>
    /\ call[1].fn \in {"deduplicateTags", "utils.deduplicateTags"}
    /\ returned = <<>>
    /\ LET f(prompt) == IF call[1].fn = "deduplicateTags"
                        THEN deduplicateTags(prompt)
                        ELSE utils_deduplicateTags(prompt)
       IN  returned' = <<f(call[1].arg), f(f(call[1].arg))>>
    /\ UNCHANGED <<metadata, passes, clientResult, wireKeys, wireOut, costIn, costOut,
                   call>>
    /\ UNCHANGED <<parserVars, retryVars>>

CallInit ==
    /\ ParserIdle
    /\ RetryIdle
    /\ metadata = <<>>
    /\ passes = <<>>
    /\ clientResult = <<>>
    /\ wireKeys = {}
    /\ wireOut = <<>>
    /\ costIn = <<>>
    /\ costOut = <<>>
    /\ \/ \E archive \in Archives :
             call = <<[fn |-> "generateImage", arg |-> archive]>>
       \/ \E archive \in Archives :
          \E x \in {None, Some(<<"Corrupted zip : CRC32 mismatch">>)} :
             call = <<[fn |-> "handleDirectorDecompression",
                       arg |-> [load |-> None, entries |-> archive, extract |-> x]]>>
       \/ \E message \in { <<"invalid zip">>,
                            <<"Central Directory header not found">>,
                            <<"Corrupted zip: can't find end of central directory">>,
                            <<"Encrypted zip are not supported">> } :
             call = <<[fn |-> "handleDirectorDecompression",
                       arg |-> [load |-> Some(message), entries |-> <<>>,
                                extract |-> None]]>>
       \/ \E n \in 0..MaxLines : \E lines \in [1..n -> SSELines] :
             call = <<[fn |-> "parseSSEEvents", arg |-> lines]>>
       \/ \E n \in 0..MaxTags :
          \E prompt \in [1..n -> {"", "cute", "Cute", "nsfw", "2", "1", "constructor"}] :
          \E fn \in {"deduplicateTags", "utils.deduplicateTags"} :
             call = <<[fn |-> fn, arg |-> prompt]>>
    /\ returned = <<>>

CallNext ==
    \/ GenerateImageArchive
    \/ HandleDirectorDecompression
    \/ ParseSSEEvents
    \/ DeduplicateTags

CallSpec == CallInit /\ [][CallNext]_vars

----------------------------------------------------------------------------
(* Properties of the stream parser *)

\* every byte of the stream was fed and every generator ran to its end
Done == pos = Len(stream) /\ gens = <<>> /\ chunksFed >= 1

\* feedChunk on a fresh parser, given the whole stream in one call and
\* consumed to the end: the events it yields
RECURSIVE RunLoop(_, _, _)
RunLoop(buf, exp, evs) ==
    LET r == FeedIter(buf, exp)
    IN IF r.kind = "break" THEN evs
       ELSE RunLoop(r.buffer, r.exp, evs \o parseMsgpackMessage(r.msg))

SingleCallEvents == RunLoop(stream, NULL, <<>>)

\* the events of the records the sender wrote, in the order it wrote them
RECURSIVE EventsOf(_)
EventsOf(fs) ==
    IF fs = <<>> THEN <<>>
    ELSE parseMsgpackMessage(Drop(Head(fs), 4)) \o EventsOf(Tail(fs))

\* C1: a stream of well-formed records split into two or more chunks, at any
\* offsets, yields the same events in the same order as the stream fed in a
\* single feedChunk call.
C1_ChunkingInvariant ==
    (Done /\ WellFormed /\ chunksFed >= 2) => events = SingleCallEvents

C1_Witness ==
    /\ Done /\ WellFormed /\ chunksFed >= 2
    /\ cutMidPrefix /\ cutMidBody
    /\ Len(events) = 2

\* C2: the i-th event emitted, by feedChunk and by parseMsgpackEvents, comes
\* from the i-th record of the stream that decodes to an event; events are
\* not reordered or grouped by samp_ix.
C2_ArrivalOrder ==
    /\ (Done /\ WellFormed) => events = EventsOf(frames)
    /\ (oneShot # <<>> /\ WellFormed) => oneShot[1].events = EventsOf(frames)

C2_Witness ==
    /\ Done /\ WellFormed /\ oneShot # <<>>
    /\ events = <<[samp_ix |-> 1], [samp_ix |-> 0]>>
    /\ oneShot[1].events = events

\* index of the first corrupted frame, 0 if there is none
FirstBad == IF WellFormed THEN 0
            ELSE CHOOSE i \in 1..Len(frames) :
                     /\ frames[i] \notin GoodFrames
                     /\ \A j \in 1..(i - 1) : frames[j] \in GoodFrames

\* the events of the well-formed records that arrive after the corrupted region
EventsAfterCorruption ==
    IF FirstBad = 0 THEN <<>>
    ELSE EventsOf(SelectSeq(SubSeq(frames, FirstBad + 1, Len(frames)),
                            LAMBDA f : f \in GoodFrames))

RECURSIVE IsSubseq(_, _)
IsSubseq(a, b) ==
    IF a = <<>> THEN TRUE
    ELSE IF b = <<>> THEN FALSE
    ELSE IF Head(a) = Head(b) THEN IsSubseq(Tail(a), Tail(b))
    ELSE IsSubseq(a, Tail(b))

\* C3: a corrupted region does not wedge the parser: every well-formed record
\* that arrives after it is still emitted, by feedChunk and by
\* parseMsgpackEvents.
C3_ResyncAfterCorruption ==
    /\ Done => IsSubseq(EventsAfterCorruption, events)
    /\ oneShot # <<>> => IsSubseq(EventsAfterCorruption, oneShot[1].events)

\* C4: no record body of which fewer bytes than its declared length were
\* received is passed to the decoder, by feedChunk or by parseMsgpackEvents.
C4_NoPartialRecordDecoded ==
    /\ \A i \in 1..Len(decoded) : decoded[i].passed = decoded[i].declared
    /\ oneShot # <<>> =>
           \A i \in 1..Len(oneShot[1].decoded) :
               oneShot[1].decoded[i].passed = oneShot[1].decoded[i].declared

\* the buffered bytes hold another complete record
CompleteRecordBuffered ==
    IF expectedMessageLength = NULL
    THEN Len(buffer) >= 4 /\ Len(buffer) - 4 >= GetUint32(buffer)
    ELSE Len(buffer) >= expectedMessageLength

\* C5: every feedChunk call, consumed, comes to its end, and it ends exactly
\* when the buffered bytes hold no further complete record; zero-length
\* chunks and zero-length records included.
C5_FeedChunkTerminates ==
    /\ [](gens = <<>> => ~CompleteRecordBuffered)
    /\ (gens # <<>>) ~> (gens = <<>>)

C5_Witness ==
    /\ Done /\ fedEmptyChunk
    /\ \E i \in 1..Len(frames) : frames[i] = Prefix(0)
    /\ Len(decoded) >= 2

\* the bytes of the first n records taken from the buffer, prefixes included
ConsumedBytes(n) ==
    LET C[i \in 0..n] == IF i = 0 THEN 0 ELSE C[i - 1] + 4 + decoded[i].declared
    IN  C[n]

\* the bytes taken from the buffer as length prefixes and record bodies
Consumed ==
    ConsumedBytes(Len(decoded)) + (IF expectedMessageLength = NULL THEN 0 ELSE 4)

\* the bytes of the feedChunk calls whose chunk is in the buffer or was taken
\* from it, in the order of the calls
Appended ==
    LET waiting == SelectSeq(gens, LAMBDA g : g.pc = "start")
    IN  Take(stream, pos - Len(Flatten([i \in 1..Len(waiting) |-> waiting[i].chunk])))

\* C26: when a feedChunk call that was consumed to its end returns, either
\* no length is expected and fewer than 4 bytes are buffered, or a length is
\* expected, its 4-byte prefix is out of the buffer and fewer bytes are
\* buffered than the length; and the bytes fed are the bytes taken as
\* prefixes and bodies followed by the bytes buffered, each byte in one of
\* them only.
C26_StatesAndByteConservation ==
    /\ gens = <<>> =>
          IF expectedMessageLength = NULL
          THEN Len(buffer) < 4
          ELSE Len(buffer) < expectedMessageLength
    /\ Consumed + Len(buffer) = Len(Appended)
    /\ buffer = Drop(Appended, Consumed)
    /\ \A i \in 1..Len(decoded) :
          decoded[i].declared =
              GetUint32(SubSeq(Appended, ConsumedBytes(i - 1) + 1, ConsumedBytes(i - 1) + 4))
    /\ expectedMessageLength # NULL =>
          expectedMessageLength = GetUint32(SubSeq(Appended, Consumed - 3, Consumed))

\* a call returned while the body of the second record is awaited, part of
\* it buffered
C26_Witness ==
    /\ gens = <<>> /\ chunksFed >= 2
    /\ Len(decoded) = 1
    /\ expectedMessageLength # NULL
    /\ buffer # <<>>

RECURSIVE IsPrefix(_, _)
IsPrefix(a, b) ==
    \/ a = <<>>
    \/ b # <<>> /\ Head(a) = Head(b) /\ IsPrefix(Tail(a), Tail(b))

\* C27: when the consumer stops iterating a generator after an event while
\* further complete records are buffered, the parser stays consistent: the
\* next feedChunk call first emits those records and then the new ones,
\* each record once and in stream order; no record is lost or duplicated.
C27_AbandonedGeneratorLosesNothing ==
    /\ IsPrefix(events, SingleCallEvents)
    /\ (pos = Len(stream) /\ gens = <<>> /\ ~CompleteRecordBuffered)
           => events = SingleCallEvents

\* a generator was given up with a complete record buffered, and a later
\* call emitted that record
C27_Witness ==
    /\ abandoned
    /\ pos = Len(stream) /\ gens = <<>> /\ ~CompleteRecordBuffered
    /\ chunksFed >= 2
    /\ Len(events) = 2
    /\ events = SingleCallEvents

\* C28: chunks enter the buffer in the order of the feedChunk calls, also
\* when a second call is made before the generator of the first has been
\* iterated, or the two generators are iterated in the other order or
\* interleaved: the bytes of the first chunk stand before those of the
\* second, and the events are those of consuming the first call to its end
\* before the second call.
C28_ChunksEnterInCallOrder ==
    /\ (\A g \in 1..Len(gens) : gens[g].pc # "start") => buffer = Drop(Appended, Consumed)
    /\ (pos = Len(stream) /\ gens = <<>>) => events = SingleCallEvents

----------------------------------------------------------------------------
(* Properties of withRetry and of the client calls *)

Finished == rpc \in {"returned", "threw"}

MaxRetries == ConfigMaxRetries(rcfg)

\* C6: with retries enabled and maxRetries = N >= 0 the operation is invoked
\* at most N+1 times, one invocation at a time; the first value it resolves
\* with is returned with no further invocation; after N+1 failures the error
\* of the last attempt is what withRetry rejects with, unchanged.  With
\* enabled = false the operation is invoked exactly once.
C6_BoundedAttempts ==
    /\ (ConfigEnabled(rcfg) /\ MaxRetries.kind = "number" /\ MaxRetries.val >= 0) =>
           /\ invocations <= MaxRetries.val + 1
           /\ inFlight <= 1
           /\ successes >= 1 =>
                  /\ successes = 1
                  /\ rpc = "returned"
                  /\ outcome = [kind |-> "value", value |-> invocations, error |-> NoError]
           /\ (rpc = "threw" /\ invocations = MaxRetries.val + 1) =>
                  /\ outcome.kind = "error"
                  /\ outcome.error = lastThrown
                  /\ lastThrown.id = MaxRetries.val + 1
    /\ rcfg.enabled = "false" =>
           /\ invocations <= 1
           /\ Finished => invocations = 1

C6_Witness ==
    /\ ConfigEnabled(rcfg) /\ rcfg.maxKind = "number" /\ rcfg.maxVal = 2
    /\ rpc = "threw" /\ invocations = 3 /\ delays = 2
    /\ outcome.error.status = 429 /\ outcome.error.id = 3

\* C7: an attempt of generateImage or useDirectorTool that the client's
\* timeout aborted is followed by another attempt as long as fewer than
\* maxRetries retries were made.
C7_TimeoutIsRetried ==
    (op \in ClientOps /\ ConfigEnabled(rcfg) /\ rpc = "threw" /\ lastThrown.cause = "timeout")
        => AttemptGeq(attempt, MaxRetries)

\* the failures the retry policy is not meant to retry
NotRetryable(e) ==
    /\ e # NoError
    /\ e.status \notin ConfigStatusCodes(rcfg)
    /\ e.cause \notin {"network", "timeout"}

C9_DefaultRetriesServerErrors ==
    (ConfigEnabled(rcfg) /\ ~rcfg.codesGiven /\ rpc = "threw"
        /\ lastThrown.status \in {429, 500, 501, 502, 503, 504, 507, 508, 509})
        => AttemptGeq(attempt, MaxRetries)

\* C10: a request that violates the resolution bound makes generateImage
\* fail with the validation error, with no transport call and no attempt.
C10_ValidationBeforeNetwork ==
    (op = "generateImage" /\ ~handleResolution(req).ok) =>
        /\ fetches = 0
        /\ invocations = 0
        /\ Finished => (rpc = "threw" /\ outcome.error.cause = "validation")

\* C11: an attempt of generateImage whose response arrived and whose content
\* type or archive was then rejected is the last attempt: the call rejects
\* with that error, no backoff is started and no further fetch is made.
C11_DecodeFailureNotRetried ==
    (op = "generateImage" /\ lastThrown.cause \in {"contentType", "decode"}) =>
        /\ rpc = "threw"
        /\ outcome.kind = "error"
        /\ outcome.error = lastThrown
        /\ fetches = lastThrown.id
        /\ delays = fetches - 1

C11_Witness ==
    /\ op = "generateImage" /\ ConfigEnabled(rcfg) /\ rcfg.maxKind = "number" /\ rcfg.maxVal = 2
    /\ rpc = "threw" /\ outcome.error.cause = "decode"
    /\ fetches = 2 /\ delays = 1

\* C29: in generateImage and useDirectorTool the abort timer of an attempt
\* stays armed from the sending of the request until the body of the
\* response has been read, so that a body transfer that stalls after the
\* headers arrived is aborted by the timeout instead of pending forever.
C29_TimerArmedUntilBodyRead ==
    (op \in ClientOps /\ fpc \in {"fetching", "reading"}) => timerArmed

\* C30: withRetry invokes the wrapped operation at least once for every
\* retry configuration, enabled or not, and every maxRetries a caller can
\* pass (0, a negative number, undefined given explicitly): the throw after
\* the loop is never reached, and withRetry ends with a value the operation
\* returned or with an error the operation threw.
C30_OperationInvokedAtLeastOnce ==
    outcome.kind # "pending" =>
        /\ invocations >= 1
        /\ outcome.kind = "error" => outcome.error # FailedAfterRetries

----------------------------------------------------------------------------
(* Properties of MetadataProcessor.processMetadata *)

\* the first call of processMetadata returned
Normalized == passes # <<>> /\ passes[1] # None

\* the request the first call returned
Result == passes[1][1]

\* ceil(v / 64) * 64
RoundUp64(v) == ((v + 63) \div 64) * 64

C13_SuppliedDimensionsRounded ==
    Normalized =>
        /\ metadata.width # NoDim => Result.width = RoundUp64(metadata.width)
        /\ metadata.height # NoDim => Result.height = RoundUp64(metadata.height)
        /\ (metadata.width = NoDim /\ metadata.height = NoDim) =>
               <<Result.width, Result.height>> =
                   IF metadata.resPreset = "small_square" THEN <<640, 640>> ELSE <<832, 1216>>

\* a request without its seeds
Seedless(m) == [m EXCEPT !.seed = None, !.extra_noise_seed = None]

\* C14: processMetadata applied to a request it returned succeeds and returns
\* the same request, field for field, the seeds apart.
C14_NormalizationIdempotent ==
    Len(passes) = 2 =>
        /\ passes[2] # None
        /\ Seedless(passes[2][1]) = Seedless(passes[1][1])

\* the number of director reference images the caller gave
ImageCount == IF metadata.director_reference_images = None THEN 0
              ELSE Len(metadata.director_reference_images[1])

DirectorArrays == {"director_reference_descriptions",
                   "director_reference_information_extracted",
                   "director_reference_strength_values",
                   "director_reference_secondary_strength_values"}

\* the elements of the array the caller gave under key f
Supplied(f) == IF metadata[f] = None THEN <<>> ELSE metadata[f][1]

\* C15: with n >= 1 director reference images every per-image array of the
\* normalized request has n elements, the supplied values first and in order;
\* the three arrays with a default are filled with it; with no image every
\* director reference key is absent.
C15_DirectorArraysMatchImages ==
    Normalized =>
        IF ImageCount >= 1
        THEN /\ \A f \in DirectorArrays :
                    /\ Result[f] # None
                    /\ Len(Result[f][1]) = ImageCount
                    /\ \A i \in 1..ImageCount :
                           i <= Len(Supplied(f)) => Result[f][1][i] = Supplied(f)[i]
             /\ \A i \in 1..ImageCount :
                    /\ i > Len(Supplied("director_reference_descriptions")) =>
                           Result.director_reference_descriptions[1][i] = DefaultDescription
                    /\ i > Len(Supplied("director_reference_information_extracted")) =>
                           Result.director_reference_information_extracted[1][i] = 1
                    /\ i > Len(Supplied("director_reference_strength_values")) =>
                           Result.director_reference_strength_values[1][i] = 1
        ELSE /\ Result.director_reference_images = None
             /\ \A f \in DirectorArrays : Result[f] = None

\* C16: a normalized request whose sampler is k_euler_ancestral carries
\* deliberate_euler_ancestral_bug = false and prefer_brownian = true, from
\* MetadataProcessor.processMetadata and from NovelAI.processMetadata.
C16_EulerAncestralFlagsForced ==
    /\ \A i \in 1..Len(passes) :
           (passes[i] # None /\ passes[i][1].sampler = Some(EULER_ANC)) =>
               /\ passes[i][1].deliberate_euler_ancestral_bug = Some(FALSE)
               /\ passes[i][1].prefer_brownian = Some(TRUE)
    /\ (clientResult # <<>> /\ clientResult[1].sampler = EULER_ANC) =>
           /\ clientResult[1].deliberate_euler_ancestral_bug = Some(FALSE)
           /\ clientResult[1].prefer_brownian = Some(TRUE)

\* C17: for a model of the V4 family the normalized request has no sm, no
\* sm_dyn and params_version = 3.
C17_V4DropsSmeaForcesVersion ==
    \A i \in 1..Len(passes) :
        (passes[i] # None /\ passes[i][1].model[1] \in v4Models) =>
            /\ passes[i][1].sm = None
            /\ passes[i][1].sm_dyn = None
            /\ passes[i][1].params_version = Some(3)

\* character prompt cp is enabled and its center, 0.5 taken for what is
\* missing, is not (0.5, 0.5)
EnabledOffCenter(cp) ==
    /\ cp.enabled # Some(FALSE)
    /\ cp.center # None
    /\ \/ cp.center[1].x \notin {None, Some(5)}
       \/ cp.center[1].y \notin {None, Some(5)}

\* C18: use_coords of the normalized request is true exactly when some
\* enabled character prompt has a center other than (0.5, 0.5).
C18_UseCoordsIffEnabledOffCenter ==
    Normalized =>
        (Result.use_coords = Some(TRUE)) <=>
            \E i \in 1..Len(metadata.characterPrompts) :
                EnabledOffCenter(metadata.characterPrompts[i])

----------------------------------------------------------------------------
(* Properties of prepareMetadataForApi *)

\* the wire key documented for inpaintImg2ImgStrength
key_inpaint_img2img_strength == <<"i", "n", "p", "a", "i", "n", "t", "_", "i", "m", "g", "2", "i", "m", "g", "_", "s", "t", "r", "e", "n", "g", "t", "h">>

\* the wire key the comments of the Metadata type give for a key
DocumentedKey(key) ==
    CASE key = Key.nSamples -> Key.n_samples
      [] key = Key.inpaintImg2ImgStrength -> key_inpaint_img2img_strength
      [] key = Key.v4Prompt -> Key.v4_prompt
      [] key = Key.v4NegativePrompt -> Key.v4_negative_prompt
      [] OTHER -> key

\* C19: every field of the payload is emitted under its documented wire key:
\* ucPreset, qualityToggle, autoSmea and characterPrompts as written, the V4
\* prompts as v4_prompt and v4_negative_prompt, every other field in the
\* snake_case spelling the Metadata type documents.
C19_DocumentedWireKeys ==
    wireOut # <<>> =>
        \A e \in wireOut[1] :
            e.to = [i \in 1..Len(e.from) |-> DocumentedKey(e.from[i])]

----------------------------------------------------------------------------
(* Properties of calculateCost *)

\* C20: with every other parameter fixed, calculateCost is non-decreasing
\* in steps and non-decreasing in the number of samples, with and without
\* the discount flag, over the non-negative integers, 0 included.
C20_CostNonDecreasing ==
    costOut # <<>> => costOut[1][1] <= costOut[1][2]

\* C21: in calculateCost one of the two pairs of smoothing flags applies,
\* chosen by the family of the model: for every V4 model, the inpainting
\* models and V4.5 among them, the factor is 1.2 when autoSmea is set and
\* 1.0 otherwise, whatever sm and smDyn are; for every other model it is
\* 1.4 when smDyn is set, else 1.2 when sm is set, else 1.0, whatever
\* autoSmea is.  Factors are in tenths.
C21_SmeaFactorByModelFamily ==
    costOut # <<>> =>
        LET m == costIn[1].metadata
        IN  smeaFactorOf(m) =
                IF isV4Model(m.model[1])
                THEN IF IsTrue(m.autoSmea) THEN 12 ELSE 10
                ELSE IF IsTrue(m.smDyn) THEN 14
                     ELSE IF IsTrue(m.sm) THEN 12 ELSE 10

----------------------------------------------------------------------------
(* Properties of the decoding of responses *)

\* the call of fn has returned
Returned(fn) == call # <<>> /\ call[1].fn = fn /\ returned # <<>>

\* C22: for an archive with k entries that are no directories, mixed with
\* any number of directory entries, generateImage returns exactly k images
\* in entry order, the i-th (from 0) with the data of the i-th such entry
\* and a file name ending in _p{i}.png; an empty archive gives the empty list.
C22_ImagesInEntryOrder ==
    Returned("generateImage") =>
        LET entries == SelectSeq(call[1].arg, LAMBDA e : ~e.dir)
        IN  returned[1] = [i \in 1..Len(entries) |->
                              [p |-> i - 1, data |-> entries[i].data]]

\* C23: for a director-tool response archive decompression is tried first;
\* the whole response buffer is returned as the single raw image if and
\* only if decompression fails with the signature of data that is no valid
\* archive; every other failure (an archive with no entries, an entry that
\* cannot be extracted, any other decompression error) reaches the caller
\* and never gives raw bytes as an image.
C23_RawOnlyForInvalidArchive ==
    Returned("handleDirectorDecompression") =>
        LET a == call[1].arg
            notAnArchive ==
                /\ a.load # None
                /\ \/ includes(a.load[1], "invalid zip")
                   \/ includes(a.load[1], "Central Directory header not found")
            files == ObjectKeys(zipFiles(a.entries))
            otherFailure ==
                /\ ~notAnArchive
                /\ \/ a.load # None
                   \/ files = <<>>
                   \/ files[1].dir
                   \/ a.extract # None
        IN  /\ returned[1].kind = "raw" <=> notAnArchive
            /\ otherFailure => returned[1].kind = "throw"

\* the empty line that ends a record
BlankLine == [field |-> "", colon |-> FALSE, value |-> <<>>]

\* the records of a text: the runs of lines between empty lines
RECURSIVE RecordsOf(_)
RecordsOf(lines) ==
    IF \A i \in 1..Len(lines) : lines[i] # BlankLine THEN <<lines>>
    ELSE LET b == CHOOSE i \in 1..Len(lines) :
                      /\ lines[i] = BlankLine
                      /\ \A j \in 1..(i - 1) : lines[j] # BlankLine
         IN  <<SubSeq(lines, 1, b - 1)>> \o RecordsOf(SubSeq(lines, b + 1, Len(lines)))

\* the values of the data lines of a record, concatenated
DataOf(record) ==
    Flatten([i \in 1..Len(record) |->
                IF record[i].colon /\ record[i].field = "data"
                THEN record[i].value ELSE <<>>])

\* the event of each record that holds one, in the order of the records
RECURSIVE EventsOfRecords(_)
EventsOfRecords(records) ==
    IF records = <<>> THEN <<>>
    ELSE (IF JsonIsEvent(DataOf(Head(records)))
          THEN <<createMsgpackEvent(DataOf(Head(records))[2])>> ELSE <<>>)
         \o EventsOfRecords(Tail(records))

\* C24: parseSSEEvents handles each record, the lines up to an empty line,
\* once and in order: the values of all data lines of a record are
\* concatenated and then parsed, at the empty line that ends the record or,
\* for a last record without one, at the end of the input; no record is
\* parsed twice and no data of a record passes into the next.
C24_RecordsParsedOnceInOrder ==
    Returned("parseSSEEvents") =>
        returned[1] = EventsOfRecords(RecordsOf(call[1].arg))

\* a record of two data lines and its empty line, then a last record without
\* an empty line: both events are returned
C24_Witness ==
    /\ Returned("parseSSEEvents")
    /\ call[1].arg = << [field |-> "data", colon |-> TRUE, value |-> <<2>>],
                        [field |-> "data", colon |-> TRUE, value |-> <<1>>],
                        BlankLine,
                        [field |-> "data", colon |-> TRUE, value |-> <<2, 3>>] >>
    /\ returned[1] = <<createMsgpackEvent(1), createMsgpackEvent(3)>>

----------------------------------------------------------------------------
(* Properties of deduplicateTags *)

\* the pieces of a prompt that are not empty and whose lower-cased form did
\* not occur in an earlier piece
FirstOccurrences(prompt) ==
    LET keep == {i \in 1..Len(prompt) :
                    /\ prompt[i] # ""
                    /\ \A j \in 1..(i - 1) :
                          toLowerCase(prompt[j]) # toLowerCase(prompt[i])}
        F[i \in 0..Len(prompt)] ==
            IF i = 0 THEN <<>>
            ELSE IF i \in keep THEN Append(F[i - 1], prompt[i]) ELSE F[i - 1]
    IN  F[Len(prompt)]

\* C25: deduplicateTags returns the trimmed, non-empty segments of its
\* input without those whose lower-cased form occurred earlier, the first
\* occurrences in their casing and order, joined by ", "; no two segments of
\* the result are equal up to case; deduplicateTags of the result is the
\* result; an empty input is returned unchanged.
C25_DeduplicateTags ==
    call # <<>> /\ call[1].fn \in {"deduplicateTags", "utils.deduplicateTags"}
                /\ returned # <<>> =>
        LET result == returned[1]
        IN  /\ result = FirstOccurrences(call[1].arg)
            /\ \A i, j \in 1..Len(result) :
                  i # j => toLowerCase(result[i]) # toLowerCase(result[j])
            /\ returned[2] = result
            /\ call[1].arg = EmptyString => result = EmptyString

====
